---- MODULE Spec2Model ----
(***************************************************************************)
(* Model of the TypeScript client of artissist/logger: the Logger          *)
(* (entry construction, error sanitization, adapter dispatch), the         *)
(* Console/File adapters (level filter, emoji override) and the            *)
(* FileAdapter's buffer, write stream and rotation.                        *)
(*                                                                         *)
(* Three state machines share this module:                                 *)
(*   Spec          Logger over mock adapters (logger.ts)                   *)
(*   SpecAdapters  ConsoleAdapter and FileAdapter formatting and filtering *)
(*   SpecFile      FileAdapter buffer, stream, rotation, flush and close   *)
(*   FairSpecFile  SpecFile with the event loop's fairness                 *)
(***************************************************************************)
EXTENDS Integers, Sequences, FiniteSets, TLC

VARIABLES
  \* ---- Logger (logger.ts) ----
  service,         \* Logger.service
  environment,     \* Logger.environment
  emojiEnabled,    \* Logger.emojiResolver.enabled
  baseContext,     \* Logger.baseContext (field map)
  currentContext,  \* Logger.contextManager.currentContext (field map)
  adapters,        \* Logger.adapters: the behaviour of each adapter's write()
  received,        \* per adapter, the logId of each entry its write() was called with
  rejections,      \* rejected write() promises whose catch handler has not run yet
  diagnostics,     \* number of console.error('Logger adapter error:') calls
  unhandled,       \* rejected promises nobody attached a handler to
  calls,           \* number of log() calls made
  lastCall,        \* the latest log() call: its arguments, outcome and entry
  \* ---- one ConsoleAdapter or FileAdapter (adapters/console.ts, adapters/file.ts) ----
  aKind,            \* "console" or "file": the class of the adapter
  aOptions,         \* this.options: enableEmojis, logLevel and, for a file, bufferSize
  aResolverEnabled, \* this.emojiResolver.enabled
  aCustom,          \* this.emojiResolver.customMappings: event -> emoji
  aBuffered,        \* FileAdapter.buffer.length
  lastWrite,        \* the latest write(): its entry and what it put out
  \* ---- one FileAdapter, its write streams and its directory (adapters/file.ts) ----
  fEnv,            \* the environment: test (NODE_ENV is 'test' or JEST_WORKER_ID is set),
                   \* renameThrows (fs.renameSync on the log file throws)
  fOpts,           \* this.options: bufferSize, maxFileSize, rotateOnSize, rotateDaily,
                   \* maxBackupFiles, flushInterval, and unset: the options
                   \* among these whose value is undefined (written as 0)
  fBuffer,         \* this.buffer: the lines not flushed yet (a line is the number of its entry)
  fSize,           \* this.currentFileSize
  fStream,         \* this.writeStream: an index into streams, 0 for undefined
  fTimer,          \* this.flushTimer is set
  streams,         \* every fs.WriteStream created: status, file, pending chunks, end state
  inodes,          \* the files on disk: content (lines) and modification time
  pathInode,       \* the file named options.filePath: an index into inodes, 0 for none
  backups,         \* the files named filePath.<timestamp>: timestamp -> index into inodes
  clock,           \* the wall clock, in milliseconds
  fCalls,          \* the flush() / close() calls made: kind, position, stream awaited
  accepted,        \* number of entries write() has accepted
  writers,         \* the Logger that passed each accepted entry to write(), in order
  handed,          \* the lines passed to writeStream.write, in order, with their rotation count
  lost,            \* lines passed to a stream that refused or discarded them
  rotLog,          \* per rotateFile() call: the backup made (-1 for none), the size after,
                   \* and whether the stream it ended had opened its file
  fErrors,          \* number of 'error' events of write streams
  \* ---- one ContextManager (context.ts) ----
  cmCurrent,       \* this.currentContext (field map)
  cmStack,         \* this.contextStack
  cmBefore,        \* what getContext() returned before each pushContext not yet popped
  cmLast,           \* the latest popContext(): what it returned, context and depth before
  \* ---- a context carried through HTTP headers (context.ts) ----
  hContext,        \* the context given to toHeaders (field map)
  hHeaders,        \* the headers toHeaders returned, or undefined before the call
  hExtracted,       \* what extractFromHeaders returned on them, or undefined before the call
  \* ---- a Logger and the Logger its child() returned (logger.ts) ----
  famLoggers,      \* per Logger: service, environment, baseContext, current context,
                   \* and which resolver object and which adapter array it holds
  famResolvers,    \* per EmojiResolver object: enabled
  famEmitted,      \* per Logger: the entry of its latest log(), undefined before
  famCalls,        \* number of log() calls made on either
  famActor,         \* the Logger the latest operation was called on
  \* ---- one EmojiResolver.getEmoji call (emoji.ts) ----
  eArgs,           \* the resolver (enabled, customMappings) and the arguments (event, fallback)
  eResult,          \* what getEmoji returned, or the marker of no call yet
  \* ---- LoggerFactory and the process environment (factory.ts) ----
  facDefaults,     \* LoggerFactory.defaultConfig (field map)
  facGlobal,       \* LoggerFactory.globalEmojiResolver: a resolver or undefined
  facLogFileEnv,   \* process.env.LOG_FILE: a string or undefined (set before the program starts)
  facStale,        \* custom events registered before the latest reset() and not since
  facAfterReset,   \* reset() was called and configure() was not called since
  facLast,          \* the latest factory call: its name, its argument, the Logger made
  \* ---- Logger.flush() and Logger.close() over adapters (logger.ts) ----
  clAdapters,      \* per adapter: what its flush() and its close() do, "absent" when undefined
  clFlushed,       \* the adapters whose flush() was invoked, in order
  clClosed,        \* the adapters whose close() was invoked, in order
  clOp,            \* the call in progress or finished: "none", "flush" or "close"
  clPc,             \* its position: "idle", "awaitFlush", "awaitClose", "resolved", "rejected"
  \* ---- withContext calls on the global ContextManager (context.ts) ----
  wcPc,            \* per call: "idle", "running" (awaiting fn) or "settled"
  wcInitial,       \* the current context before the first call
  wcLog            \* the starts and ends of the calls, in order

loggerVars == <<service, environment, emojiEnabled, baseContext, currentContext,
                adapters, received, rejections, diagnostics, unhandled, calls, lastCall>>

adapterVars == <<aKind, aOptions, aResolverEnabled, aCustom, aBuffered, lastWrite>>

fileVars == <<fEnv, fOpts, fBuffer, fSize, fStream, fTimer, streams, inodes, pathInode, backups,
              clock, fCalls, accepted, writers, handed, lost, rotLog, fErrors>>

contextVars == <<cmCurrent, cmStack, cmBefore, cmLast>>

headerVars == <<hContext, hHeaders, hExtracted>>

familyVars == <<famLoggers, famResolvers, famEmitted, famCalls, famActor>>

emojiVars == <<eArgs, eResult>>

factoryVars == <<facDefaults, facGlobal, facLogFileEnv, facStale, facAfterReset, facLast>>

closeVars == <<clAdapters, clFlushed, clClosed, clOp, clPc>>

withVars == <<wcPc, wcInitial, wcLog>>

vars == <<loggerVars, adapterVars, fileVars, contextVars, headerVars, familyVars, emojiVars, factoryVars, closeVars, withVars>>

\* what the actions of one machine leave alone
nonLoggerVars == <<adapterVars, fileVars, contextVars, headerVars, familyVars, emojiVars, factoryVars, closeVars, withVars>>
nonAdapterVars == <<loggerVars, fileVars, contextVars, headerVars, familyVars, emojiVars, factoryVars, closeVars, withVars>>
nonFileVars == <<loggerVars, adapterVars, contextVars, headerVars, familyVars, emojiVars, factoryVars, closeVars, withVars>>
nonContextVars == <<loggerVars, adapterVars, fileVars, headerVars, familyVars, emojiVars, factoryVars, closeVars, withVars>>
nonHeaderVars == <<loggerVars, adapterVars, fileVars, contextVars, familyVars, emojiVars, factoryVars, closeVars, withVars>>
nonFamilyVars == <<loggerVars, adapterVars, fileVars, contextVars, headerVars, emojiVars, factoryVars, closeVars, withVars>>
nonEmojiVars == <<loggerVars, adapterVars, fileVars, contextVars, headerVars, familyVars, factoryVars, closeVars, withVars>>
nonFactoryVars == <<loggerVars, adapterVars, fileVars, contextVars, headerVars, familyVars, emojiVars, closeVars, withVars>>
nonCloseVars == <<loggerVars, adapterVars, fileVars, contextVars, headerVars, familyVars, emojiVars, factoryVars, withVars>>
nonWithContextVars == <<loggerVars, adapterVars, fileVars, headerVars, familyVars, emojiVars, factoryVars, closeVars>>

-----------------------------------------------------------------------------
(* Bounds *)
NumAdapters == 2
MaxLogs == 2
MaxBuffered == 2
MaxWrites == 2
MaxCalls == 1
MaxClock == 1
MaxDepth == 2
NumTasks == 3

-----------------------------------------------------------------------------
(* JavaScript values. A field map is a function from field names to values; *)
(* a field that is missing is outside the map's DOMAIN.                     *)
Undefined == [t |-> "undefined"]
Null == [t |-> "null"]
Str(s) == [t |-> "string", v |-> s]
Num(n) == [t |-> "number", n |-> n]
Bool(b) == [t |-> "boolean", b |-> b]
Obj(f) == [t |-> "object", f |-> f]
DateAt(n) == [t |-> "date", ms |-> n]
ErrorInstance(c, m, s) == [t |-> "error", ctor |-> c, message |-> m, stack |-> s]
NoFields == [k \in {} |-> Undefined]

\* o?.k : property read with optional chaining
Get(o, k) == IF o.t = "object" /\ k \in DOMAIN o.f THEN o.f[k] ELSE Undefined

\* v === null || v === undefined
Nullish(v) == v.t \in {"undefined", "null"}

\* v ?? d
Coalesce(v, d) == IF Nullish(v) THEN d ELSE v

\* ToBoolean(v)
Truthy(v) ==
  CASE v.t = "undefined" -> FALSE
    [] v.t = "null" -> FALSE
    [] v.t = "string" -> v.v # ""
    [] v.t = "number" -> v.n # 0
    [] v.t = "boolean" -> v.b
    [] OTHER -> TRUE

\* typeof v
Typeof(v) ==
  CASE v.t = "null" -> "object"
    [] v.t = "error" -> "object"
    [] v.t = "date" -> "object"
    [] OTHER -> v.t

\* { ...a, ...b } on field maps: a field of b, even one set to undefined, overrides a's
Spread(a, b) == [k \in DOMAIN a \cup DOMAIN b |-> IF k \in DOMAIN b THEN b[k] ELSE a[k]]

\* the own fields that ...v copies: none for null, undefined and non-objects
FieldsOf(v) == IF v.t = "object" THEN v.f ELSE NoFields

\* ...(v && { k: v }) : the field k is added only for a truthy v
FieldIfTruthy(k, v) == IF Truthy(v) THEN [x \in {k} |-> v] ELSE NoFields

-----------------------------------------------------------------------------
(* context.ts / logger.ts identifier generation: a fresh value per call.    *)
(* The text of an identifier is given by its characters.                    *)
Rep(c, n) == [i \in 1..n |-> c]

RECURSIVE Text(_)
Text(chars) == IF chars = <<>> THEN "" ELSE Head(chars) \o Text(Tail(chars))

\* v.toString(16) for v in 0..15
HexAlphabet ==
  <<"0", "1", "2", "3", "4", "5", "6", "7", "8", "9", "a", "b", "c", "d", "e", "f">>

\* 'xxxxxxxx-xxxx-4xxx-yxxx-xxxxxxxxxxxx' with every x replaced by a digit r
\* and y by (r & 0x3) | 0x8; the n-th identifier of the model draws r = n % 16
\* at every position
GeneratedUuidChars(n) ==
  LET x == HexAlphabet[(n % 16) + 1]
      y == HexAlphabet[8 + (n % 4) + 1]
  IN Rep(x, 8) \o <<"-">> \o Rep(x, 4) \o <<"-", "4">> \o Rep(x, 3) \o <<"-", y>> \o
     Rep(x, 3) \o <<"-">> \o Rep(x, 12)

\* the identifiers one Logger can generate within the bound on its calls
GeneratedIds == [n \in 0..(MaxLogs + 1) |-> Text(GeneratedUuidChars(n))]

createCorrelationId(n) == Str(GeneratedIds[n])
generateLogId(n) == Str("log_" \o ToString(n))

LogLevels == {"TRACE", "DEBUG", "INFO", "WARN", "ERROR", "FATAL"}

-----------------------------------------------------------------------------
(* Logger.sanitizeError *)
SanitizeOptional(errorObj) ==
  LET keep == {k \in {"stackTrace", "code"} : Typeof(Get(errorObj, k)) = "string"}
              \cup {k \in {"context"} : /\ Typeof(Get(errorObj, k)) = "object"
                                        /\ Get(errorObj, k) # Null}
  IN [k \in keep |-> Get(errorObj, k)]

sanitizeError(error) ==
  IF Nullish(error) THEN Undefined
  ELSE IF error.t = "error"
    THEN Obj([type |-> Str(error.ctor), message |-> Str(error.message),
              stackTrace |-> Str(error.stack)])
  ELSE IF Typeof(error) = "string"
    THEN Obj([type |-> Str("Unknown"), message |-> error])
  ELSE IF Typeof(error) = "object"
    THEN IF Typeof(Get(error, "type")) = "string" /\ Typeof(Get(error, "message")) = "string"
         THEN Obj(Spread([type |-> Get(error, "type"), message |-> Get(error, "message")],
                         SanitizeOptional(error)))
         ELSE Undefined
  ELSE Undefined

(* Logger.createLogEntry: the entry as a field map. n numbers the call: it   *)
(* stands for the clock and the random source.                               *)
\* variant: the base context is spread last
MergedContextBaseLast(base, current, data) ==
  Spread(Spread(current, FieldsOf(Coalesce(Get(data, "context"), Obj(NoFields)))), base)

MergedContext(base, current, data) ==
  Spread(Spread(base, current), FieldsOf(Coalesce(Get(data, "context"), Obj(NoFields))))

\* variant: a correlation ID is generated only when the field is missing
EnsureCorrelationIdWhenMissing(context, n) ==
  IF "correlationId" \in DOMAIN context
  THEN context
  ELSE Spread(context, [correlationId |-> createCorrelationId(n)])

EnsureCorrelationId(context, n) ==
  IF "correlationId" \in DOMAIN context /\ ~Nullish(context["correlationId"])
  THEN context
  ELSE Spread(context, [correlationId |-> createCorrelationId(n)])

SanitizedErrorOf(data) ==
  IF Truthy(Get(data, "error")) THEN sanitizeError(Get(data, "error")) ELSE Undefined

\* variant: the caller's data is spread over the generated fields
createLogEntryDataLast(level, message, data, svc, env, emoji, base, current, n) ==
  LET context == EnsureCorrelationId(MergedContext(base, current, data), n)
      required == [logId |-> generateLogId(n),
                   timestamp |-> DateAt(n),
                   level |-> Str(level),
                   message |-> message,
                   service |-> svc,
                   environment |-> env,
                   includeEmoji |-> Bool(emoji),
                   context |-> Obj(context)]
  IN Spread(required, FieldsOf(data))

createLogEntry(level, message, data, svc, env, emoji, base, current, n) ==
  LET context == EnsureCorrelationId(MergedContext(base, current, data), n)
      sanitizedError == SanitizedErrorOf(data)
      required == [logId |-> generateLogId(n),
                   timestamp |-> DateAt(n),
                   level |-> Str(level),
                   message |-> message,
                   service |-> svc,
                   environment |-> env,
                   includeEmoji |-> Bool(emoji),
                   context |-> Obj(context)]
  IN Spread(Spread(Spread(Spread(required,
       FieldIfTruthy("event", Get(data, "event"))),
       FieldIfTruthy("metadata", Get(data, "metadata"))),
       FieldIfTruthy("metrics", Get(data, "metrics"))),
       FieldIfTruthy("error", sanitizedError))

-----------------------------------------------------------------------------
(* Logger.writeToAdapters over adapters whose write() returns normally      *)
(* ("sync"), throws ("throws"), returns a promise that rejects ("rejects")  *)
(* or one that fulfils ("resolves"). The result: what each adapter has     *)
(* received, whether an exception left the loop, how many rejected promises *)
(* got the catch handler, and how many were left without one.              *)
AdapterKinds == {"sync", "throws", "rejects", "resolves"}

RECURSIVE DispatchFrom(_, _, _, _)
DispatchFrom(i, ads, rcv, entry) ==
  IF i > Len(ads) THEN [received |-> rcv, threw |-> FALSE, caught |-> 0,
                        handled |-> 0, unhandled |-> 0, invoked |-> <<>>]
  ELSE LET rest == DispatchFrom(i + 1, ads, [rcv EXCEPT ![i] = Append(@, entry["logId"])], entry)
       IN [rest EXCEPT !.caught = @ + (IF ads[i] = "throws" THEN 1 ELSE 0),
                       !.handled = @ + (IF ads[i] = "rejects" THEN 1 ELSE 0),
                       !.invoked = <<i>> \o @]

\* variant: no try/catch around write() and no catch handler on its promise
RECURSIVE DispatchNoCatchFrom(_, _, _, _)
DispatchNoCatchFrom(i, ads, rcv, entry) ==
  IF i > Len(ads) THEN [received |-> rcv, threw |-> FALSE, caught |-> 0,
                        handled |-> 0, unhandled |-> 0, invoked |-> <<>>]
  ELSE LET got == [rcv EXCEPT ![i] = Append(@, entry["logId"])]
       IN IF ads[i] = "throws"
          THEN [received |-> got, threw |-> TRUE, caught |-> 0, handled |-> 0,
                unhandled |-> 0, invoked |-> <<i>>]
          ELSE LET rest == DispatchNoCatchFrom(i + 1, ads, got, entry)
               IN [rest EXCEPT !.unhandled = @ + (IF ads[i] = "rejects" THEN 1 ELSE 0),
                               !.invoked = <<i>> \o @]

writeToAdaptersNoCatch(ads, rcv, entry) == DispatchNoCatchFrom(1, ads, rcv, entry)

\* variant: the adapters are visited from the last to the first
RECURSIVE DispatchDownFrom(_, _, _, _)
DispatchDownFrom(i, ads, rcv, entry) ==
  IF i < 1 THEN [received |-> rcv, threw |-> FALSE, caught |-> 0,
                 handled |-> 0, unhandled |-> 0, invoked |-> <<>>]
  ELSE LET rest == DispatchDownFrom(i - 1, ads, [rcv EXCEPT ![i] = Append(@, entry["logId"])], entry)
       IN [rest EXCEPT !.caught = @ + (IF ads[i] = "throws" THEN 1 ELSE 0),
                       !.handled = @ + (IF ads[i] = "rejects" THEN 1 ELSE 0),
                       !.invoked = <<i>> \o @]

writeToAdaptersLastFirst(ads, rcv, entry) == DispatchDownFrom(Len(ads), ads, rcv, entry)

writeToAdapters(ads, rcv, entry) == DispatchFrom(1, ads, rcv, entry)

-----------------------------------------------------------------------------
(* Inputs of the Logger machine *)
Services == {Str("svc")}
Environments == {Str("test")}
Messages == {Str("hello"), Str("")}

BaseContexts == {NoFields, [correlationId |-> Str("base-corr"), userId |-> Str("u0")]}
SetContextInputs == {[correlationId |-> Str("cur-corr")], [correlationId |-> Undefined]}

ContextInputs ==
  {NoFields,
   [correlationId |-> Str("data-corr")],
   [correlationId |-> Undefined],
   [correlationId |-> Null, userId |-> Str("u1")],
   [userId |-> Str("u2")],
   [traceId |-> Str("gggggggggggggggggggggggggggggggg"), spanId |-> Str("ffffffffffffffff")]}

ErrorInputs ==
  {Undefined, Null, Obj(NoFields),
   ErrorInstance("TypeError", "boom", "TypeError: boom at f"),
   Str("Something went wrong"), Str(""),
   Obj([type |-> Str("TestError"), message |-> Str("m")]),
   Obj([type |-> Str("TestError"), message |-> Str("m"), stackTrace |-> Str("st"),
        code |-> Str("E1"), context |-> Obj([file |-> Str("a.ts")])]),
   Obj([type |-> Str("TestError"), message |-> Str("m"), stackTrace |-> Num(7),
        code |-> Null, context |-> Null, extra |-> Str("x")]),
   Obj([type |-> Str("TestError")]),
   Obj([type |-> Num(5), message |-> Str("m")]),
   Num(42), Num(0), Bool(TRUE)}

NullableFields == {"logId", "timestamp", "level", "service", "environment"}
NullKinds == {"null", "undefined", "missing"}

\* data in which the fields of `nulled` are null / undefined / missing and the
\* other nullable fields carry a caller-supplied value
SuppliedValue(k) ==
  CASE k = "logId" -> Str("caller-id")
    [] k = "timestamp" -> DateAt(0)
    [] k = "level" -> Str("FATAL")
    [] k = "service" -> Str("caller-svc")
    [] k = "environment" -> Str("caller-env")

NullableData(nulled, kind) ==
  Obj([k \in (IF kind = "missing" THEN NullableFields \ nulled ELSE NullableFields) |->
         IF k \in nulled THEN (IF kind = "null" THEN Null ELSE Undefined)
         ELSE SuppliedValue(k)])

\* the calls of the entry-construction machine: <<level, message, data>>
EntryCalls ==
  {<<l, Str("hello"), d>> :
      l \in LogLevels,
      d \in {Undefined} \cup {NullableData(s, k) : s \in SUBSET NullableFields, k \in NullKinds}}
  \cup {<<l, Str("failed"), Obj([error |-> e])>> : l \in {"ERROR", "WARN"}, e \in ErrorInputs}
  \cup {<<"INFO", m, d>> :
          m \in Messages,
          d \in {Obj([context |-> Obj(c)]) : c \in ContextInputs}
                \cup {Obj([context |-> Null]),
                      Obj([context |-> Undefined, event |-> Str("USER_AUTH")]),
                      Obj([event |-> Null, metadata |-> Undefined, metrics |-> Null,
                           error |-> Null])}}

\* the calls of the dispatch machine
DispatchCalls ==
  {<<l, Str("hello"), d>> :
      l \in LogLevels, d \in {Undefined, Obj([error |-> Str("Something went wrong")])}}

\* the setContext arguments and the calls of the context-merge machine
MergeSetInputs ==
  {[userId |-> Str("u-cur")], [sessionId |-> Str("s-cur"), requestId |-> Undefined],
   [correlationId |-> Undefined]}

MergeCalls ==
  {<<"INFO", Str("hello"), d>> :
     d \in {Undefined, Obj(NoFields), Obj([context |-> Null])}
           \cup {Obj([context |-> Obj(c)]) :
                   c \in ContextInputs \cup
                         {[sessionId |-> Str("s-data"), requestId |-> Str("r-data")],
                          [userId |-> Undefined]}}}

NoCall == [outcome |-> "none"]

-----------------------------------------------------------------------------
(* Logger machine *)
InitLoggerWith(kinds) ==
  /\ service \in Services
  /\ environment \in Environments
  /\ emojiEnabled = FALSE
  /\ baseContext \in BaseContexts
  /\ currentContext = baseContext   \* constructor: setContext(baseContext) when non-empty
  /\ adapters \in kinds
  /\ received = [i \in DOMAIN adapters |-> <<>>]
  /\ rejections = 0
  /\ diagnostics = 0
  /\ unhandled = 0
  /\ calls = 0
  /\ lastCall = NoCall

\* the ContextManager's current context after createLogEntry: getContext()
\* returned a copy and the entry's context is a new object, so the assignment
\* context.correlationId ??= ... does not reach it
\* variant: the entry's context is the manager's object
currentAfterEntryShared(current, context) ==
  Spread(current, [correlationId |-> context["correlationId"]])

currentAfterEntry(current, context) == current

\* the caller's data object after createLogEntry: data.context is spread into
\* the new object, data itself is only read
dataAfterEntry(data, context) == data

\* trace / debug / info / warn / error / fatal: this.log(LEVEL, message, data)
Log(level, message, data) ==
  /\ calls < MaxLogs
  /\ lastCall = NoCall
  /\ LET entry == createLogEntry(level, message, data, service, environment, emojiEnabled,
                                 baseContext, currentContext, calls + 1)
         out == writeToAdapters(adapters, received, entry)
     IN /\ received' = out.received
        /\ rejections' = rejections + out.handled
        /\ diagnostics' = diagnostics + out.caught
        /\ unhandled' = unhandled + out.unhandled
        /\ lastCall' = [outcome |-> IF out.threw THEN "threw" ELSE "returned",
                        level |-> level, message |-> message, data |-> data,
                        entry |-> entry, base |-> baseContext, current |-> currentContext,
                        invoked |-> out.invoked,
                        dataAfter |-> dataAfterEntry(data, entry["context"].f)]
        /\ currentContext' = currentAfterEntry(currentContext, entry["context"].f)
  /\ calls' = calls + 1
  /\ UNCHANGED <<service, environment, emojiEnabled, baseContext, adapters>>
  /\ UNCHANGED nonLoggerVars

\* the catch handler of a rejected write() promise runs as a microtask
RunCatchHandler ==
  /\ rejections > 0
  /\ rejections' = rejections - 1
  /\ diagnostics' = diagnostics + 1
  /\ UNCHANGED <<service, environment, emojiEnabled, baseContext, currentContext,
                 adapters, received, unhandled, calls, lastCall>>
  /\ UNCHANGED nonLoggerVars

\* Logger.setContext -> ContextManager.setContext
SetContext(partial) ==
  /\ currentContext' = Spread(currentContext, partial)
  /\ UNCHANGED <<service, environment, emojiEnabled, baseContext, adapters, received,
                 rejections, diagnostics, unhandled, calls, lastCall>>
  /\ UNCHANGED nonLoggerVars

\* Logger.setEmojisEnabled
SetEmojisEnabled(enabled) ==
  /\ emojiEnabled' = enabled
  /\ UNCHANGED <<service, environment, baseContext, currentContext, adapters, received,
                 rejections, diagnostics, unhandled, calls, lastCall>>
  /\ UNCHANGED nonLoggerVars

\* the caller moves on: the record kept of the latest call is dropped (the
\* record is an observation of the call, not state of the Logger)
CallerContinues ==
  /\ lastCall # NoCall
  /\ lastCall' = NoCall
  /\ UNCHANGED <<service, environment, emojiEnabled, baseContext, currentContext,
                 adapters, received, rejections, diagnostics, unhandled, calls>>
  /\ UNCHANGED nonLoggerVars

LoggerStep ==
  \/ RunCatchHandler
  \/ CallerContinues
  \/ \E partial \in SetContextInputs : SetContext(partial)
  \/ \E enabled \in BOOLEAN : SetEmojisEnabled(enabled)

-----------------------------------------------------------------------------
(* EmojiResolver (emoji.ts). Emoji are written by name: "[rocket]" is the   *)
(* rocket glyph.                                                            *)
DefaultEmojiMappings == [SYSTEM_START |-> "[rocket]"]

\* the properties every plain object inherits from Object.prototype
ObjectPrototypeKeys ==
  {"constructor", "toString", "valueOf", "hasOwnProperty", "isPrototypeOf",
   "propertyIsEnumerable", "toLocaleString", "__proto__"}

\* this.customMappings[event] on the plain object customMappings (event ->
\* emoji text): the mapping of the event, else what Object.prototype has under
\* that name (a function or an object without an emoji property), else
\* undefined
\* variant: own properties only
LookupOwn(custom, event) ==
  IF event \in DOMAIN custom THEN Obj([emoji |-> Str(custom[event])])
  ELSE Undefined

Lookup(custom, event) ==
  IF event \in DOMAIN custom THEN Obj([emoji |-> Str(custom[event])])
  ELSE IF event \in ObjectPrototypeKeys THEN [t |-> "function"]
  ELSE Undefined

\* EmojiResolver.getEmoji(event, fallbackEmoji): a value of JavaScript
getEmojiOr(enabled, custom, event, fallbackEmoji) ==
  IF ~enabled THEN Str("")
  ELSE IF Typeof(event) = "string" /\ Truthy(Lookup(custom, event.v))
    THEN Get(Lookup(custom, event.v), "emoji")
  ELSE IF Typeof(event) = "string" /\ event.v \in DOMAIN DefaultEmojiMappings
    THEN Str(DefaultEmojiMappings[event.v])
  ELSE Coalesce(fallbackEmoji, Str(""))

\* getEmoji(event) as formatMessage uses it: the text of the emoji, "" for a
\* result that is not a string (it is falsy there)
getEmoji(enabled, custom, event) ==
  LET emoji == getEmojiOr(enabled, custom, event, Undefined)
  IN IF emoji.t = "string" THEN emoji.v ELSE ""

\* variant: the resolver's enabled flag is not consulted
formatMessageIgnoringEnabled(enabled, custom, message, event) ==
  IF ~Truthy(event) THEN message
  ELSE LET emoji == getEmoji(TRUE, custom, event)
       IN IF emoji # "" THEN emoji \o " " \o message ELSE message

\* formatMessage(message, event): message is a string
formatMessage(enabled, custom, message, event) ==
  IF ~enabled \/ ~Truthy(event) THEN message
  ELSE LET emoji == getEmoji(enabled, custom, event)
       IN IF emoji # "" THEN emoji \o " " \o message ELSE message

-----------------------------------------------------------------------------
(* ConsoleAdapter and FileAdapter *)

\* LOG_LEVEL_ORDER[level]: -1 stands for undefined
LevelOrder(level) ==
  IF level.t # "string" THEN -1
  ELSE CASE level.v = "TRACE" -> 0
         [] level.v = "DEBUG" -> 1
         [] level.v = "INFO" -> 2
         [] level.v = "WARN" -> 3
         [] level.v = "ERROR" -> 4
         [] level.v = "FATAL" -> 5
         [] OTHER -> -1

\* a >= b on numbers or undefined: false as soon as one side is undefined
OrderGE(a, b) == a # -1 /\ b # -1 /\ a >= b

\* variant: the comparison is strict
shouldLogStrict(level, configured) ==
  LevelOrder(level) # -1 /\ LevelOrder(configured) # -1
  /\ LevelOrder(level) > LevelOrder(configured)

\* ConsoleAdapter.shouldLog / FileAdapter.shouldLog
shouldLog(level, configured) == OrderGE(LevelOrder(level), LevelOrder(configured))

\* the message of the output: entry.message ?? '', emoji-prefixed when
\* (entry.includeEmoji ?? options.enableEmojis) and entry.event are truthy
\* variant: the adapter's setting wins over the entry's
adapterMessageAdapterFirst(entry, options, enabled, custom) ==
  LET message == Coalesce(Get(entry, "message"), Str("")).v
      shouldIncludeEmoji == Coalesce(options["enableEmojis"], Get(entry, "includeEmoji"))
  IN IF Truthy(shouldIncludeEmoji) /\ Truthy(Get(entry, "event"))
     THEN formatMessage(enabled, custom, message, Get(entry, "event"))
     ELSE message

adapterMessage(entry, options, enabled, custom) ==
  LET message == Coalesce(Get(entry, "message"), Str("")).v
      shouldIncludeEmoji == Coalesce(Get(entry, "includeEmoji"), options["enableEmojis"])
  IN IF Truthy(shouldIncludeEmoji) /\ Truthy(Get(entry, "event"))
     THEN formatMessage(enabled, custom, message, Get(entry, "event"))
     ELSE message

\* ConsoleAdapter.write: the console method called
consoleMethod(level) ==
  CASE level.v \in {"TRACE", "DEBUG"} -> "debug"
    [] level.v = "INFO" -> "info"
    [] level.v = "WARN" -> "warn"
    [] level.v \in {"ERROR", "FATAL"} -> "error"
    [] OTHER -> "log"

\* ConsoleAdapter.formatLogEntry: the level, service and message parts of the
\* line (the timestamp and the colour codes are left out; the entries written
\* here carry no context, error, metrics or metadata)
consoleLine(entry, options, enabled, custom) ==
  [level |-> Coalesce(Get(entry, "level"), Str("INFO")),
   service |-> Coalesce(Get(entry, "service"), Str("unknown")),
   message |-> adapterMessage(entry, options, enabled, custom)]

\* FileAdapter.formatLogEntry: the record that is serialized as one JSON line
\* (without its timestamp)
fileRecord(entry, options, enabled, custom) ==
  Spread([level |-> Coalesce(Get(entry, "level"), Str("INFO")),
          service |-> Coalesce(Get(entry, "service"), Str("unknown")),
          environment |-> Coalesce(Get(entry, "environment"), Str("unknown")),
          message |-> Str(adapterMessage(entry, options, enabled, custom)),
          logId |-> Coalesce(Get(entry, "logId"), Str("unknown"))],
         FieldIfTruthy("event", Get(entry, "event")))

NoWrite == [emitted |-> "none"]

\* entries handed to write(), as the tests build them
EntryLevels == {Undefined, Null} \cup {Str(l) : l \in LogLevels}
EntryEmojiFlags == {Undefined, Null, Bool(TRUE), Bool(FALSE)}
EntryEvents == {Undefined, Str("SYSTEM_START"), Str("CUSTOM_EVT"), Str("NOT_AN_EVENT")}

AdapterEntries ==
  {Obj([logId |-> Str("test_123"), level |-> l, message |-> Str("Test message"),
        service |-> Str("test-service"), environment |-> Str("test"),
        event |-> ev, includeEmoji |-> ie]) :
     l \in EntryLevels, ie \in EntryEmojiFlags, ev \in EntryEvents}
  \cup {Obj([logId |-> Undefined, level |-> Undefined, message |-> Undefined,
             service |-> Undefined, environment |-> Undefined, event |-> Undefined,
             includeEmoji |-> Undefined])}

CustomMappingInputs == {NoFields, [CUSTOM_EVT |-> "[target]"]}

\* new ConsoleAdapter(options) / new FileAdapter(options): enableEmojis ?? false,
\* logLevel ?? INFO, bufferSize 1, flushInterval ?? 5000, and
\* emojiResolver.setEnabled(enableEmojis)
InitAdapter ==
  /\ aKind \in {"console", "file"}
  /\ \E emojis \in BOOLEAN, level \in LogLevels :
       /\ aOptions = IF aKind = "file"
                     THEN [enableEmojis |-> Bool(emojis), logLevel |-> Str(level),
                           bufferSize |-> Num(1), flushInterval |-> Num(5000)]
                     ELSE [enableEmojis |-> Bool(emojis), logLevel |-> Str(level)]
       /\ aResolverEnabled = emojis
  /\ aCustom \in CustomMappingInputs
  /\ aBuffered = 0
  /\ lastWrite = NoWrite

\* ConsoleAdapter.write(entry) / FileAdapter.write(entry)
AdapterWrite(entry) ==
  /\ lastWrite = NoWrite
  /\ aBuffered < MaxBuffered
  /\ LET level == Coalesce(Get(entry, "level"), Str("INFO"))
     IN IF ~shouldLog(level, aOptions["logLevel"])
        THEN /\ lastWrite' = [emitted |-> "no", entry |-> entry]
             /\ aBuffered' = aBuffered
        ELSE IF aKind = "console"
        THEN /\ lastWrite' = [emitted |-> "yes", entry |-> entry,
                              method |-> consoleMethod(level),
                              out |-> consoleLine(entry, aOptions, aResolverEnabled, aCustom)]
             /\ aBuffered' = aBuffered
        ELSE /\ lastWrite' = [emitted |-> "yes", entry |-> entry,
                              method |-> "buffer",
                              out |-> fileRecord(entry, aOptions, aResolverEnabled, aCustom)]
             \* buffer.push(line); flushBuffer() empties a buffer that is full
             /\ aBuffered' = IF OrderGE(aBuffered + 1,
                                        IF aOptions["bufferSize"].t = "number"
                                        THEN aOptions["bufferSize"].n ELSE -1)
                             THEN 0 ELSE aBuffered + 1
  /\ UNCHANGED <<aKind, aOptions, aResolverEnabled, aCustom>>
  /\ UNCHANGED nonAdapterVars

\* write() has returned: the record kept of it is dropped
WriteReturns ==
  /\ lastWrite # NoWrite
  /\ lastWrite' = NoWrite
  /\ UNCHANGED <<aKind, aOptions, aResolverEnabled, aCustom, aBuffered>>
  /\ UNCHANGED nonAdapterVars

\* EmojiResolver.setEnabled on the resolver the adapter holds: the factory
\* hands the Logger's resolver to its adapters (Logger.setEmojisEnabled)
ResolverSetEnabled(enabled) ==
  /\ lastWrite = NoWrite
  /\ aResolverEnabled' = enabled
  /\ UNCHANGED <<aKind, aOptions, aCustom, aBuffered, lastWrite>>
  /\ UNCHANGED nonAdapterVars

UpdateInputs ==
  {[k \in ks |-> IF k = "enableEmojis" THEN Bool(e)
                 ELSE IF k = "logLevel" THEN Str(l) ELSE Num(1)] :
     ks \in SUBSET {"enableEmojis", "logLevel", "bufferSize", "flushInterval"},
     e \in BOOLEAN, l \in {"DEBUG", "ERROR"}}

\* ConsoleAdapter.updateOptions: { ...this.options, ...options }
ConsoleUpdateOptions(partial) ==
  /\ lastWrite = NoWrite
  /\ aKind = "console"
  /\ DOMAIN partial \subseteq {"enableEmojis", "logLevel"}
  /\ aOptions' = Spread(aOptions, partial)
  /\ aResolverEnabled' = IF "enableEmojis" \in DOMAIN partial
                         THEN partial["enableEmojis"].b ELSE aResolverEnabled
  /\ UNCHANGED <<aKind, aCustom, aBuffered, lastWrite>>
  /\ UNCHANGED nonAdapterVars

\* FileAdapter.updateOptions: Object.assign(this.options, { enableEmojis:
\* options.enableEmojis, logLevel: options.logLevel, bufferSize: options.bufferSize,
\* flushInterval: options.flushInterval }): a property that partial lacks is
\* assigned undefined
UpdatableOptions == {"enableEmojis", "logLevel", "bufferSize", "flushInterval"}

FileUpdateOptions(partial) ==
  /\ lastWrite = NoWrite
  /\ aKind = "file"
  /\ aOptions' = [k \in UpdatableOptions |->
                    IF k \in DOMAIN partial THEN partial[k] ELSE Undefined]
  /\ aResolverEnabled' = IF "enableEmojis" \in DOMAIN partial
                         THEN partial["enableEmojis"].b ELSE aResolverEnabled
  /\ UNCHANGED <<aKind, aCustom, aBuffered, lastWrite>>
  /\ UNCHANGED nonAdapterVars

AdapterStep ==
  \/ \E entry \in AdapterEntries : AdapterWrite(entry)
  \/ WriteReturns
  \/ \E enabled \in BOOLEAN : ResolverSetEnabled(enabled)
  \/ \E partial \in UpdateInputs : ConsoleUpdateOptions(partial)
  \/ \E partial \in UpdateInputs : FileUpdateOptions(partial)

\* the machines that are not running stay as constructed
NoAdapter ==
  /\ aKind = "console"
  /\ aOptions = [enableEmojis |-> Bool(FALSE), logLevel |-> Str("INFO")]
  /\ aResolverEnabled = FALSE
  /\ aCustom = NoFields
  /\ aBuffered = 0
  /\ lastWrite = NoWrite

NoLogger ==
  /\ service = Str("svc")
  /\ environment = Str("test")
  /\ emojiEnabled = FALSE
  /\ baseContext = NoFields
  /\ currentContext = NoFields
  /\ adapters = <<"sync">>
  /\ received = <<<<>>>>
  /\ rejections = 0
  /\ diagnostics = 0
  /\ unhandled = 0
  /\ calls = 0
  /\ lastCall = NoCall
-----------------------------------------------------------------------------
(* FileAdapter: buffer, write stream, rotation, flush and close.            *)
(* A line stands for one serialized entry and counts as one byte.           *)

\* the adapter and its directory as one record, for the synchronous helpers
FileState ==
  [env |-> fEnv, opts |-> fOpts, buffer |-> fBuffer, size |-> fSize, stream |-> fStream,
   streams |-> streams, inodes |-> inodes, pathInode |-> pathInode, backups |-> backups,
   clock |-> clock, handed |-> handed, lost |-> lost, rotLog |-> rotLog]

SetFileState(S) ==
  /\ fBuffer' = S.buffer
  /\ fSize' = S.size
  /\ fStream' = S.stream
  /\ streams' = S.streams
  /\ inodes' = S.inodes
  /\ pathInode' = S.pathInode
  /\ backups' = S.backups
  /\ handed' = S.handed
  /\ lost' = S.lost
  /\ rotLog' = S.rotLog

\* fs.createWriteStream(filePath, {flags: 'a'}): the file is opened later
NewStream ==
  [status |-> "opening", inode |-> 0, queue |-> <<>>, ending |-> FALSE,
   finished |-> FALSE, errored |-> FALSE, endCb |-> 0]

\* the lines of a sequence of chunks
RECURSIVE Flatten(_)
Flatten(chunks) == IF chunks = <<>> THEN <<>> ELSE Head(chunks) \o Flatten(Tail(chunks))

\* FileAdapter.createWriteStream: a stream the adapter still holds is destroyed
createWriteStream(S) ==
  LET destroyed == IF S.stream # 0
                   THEN [S EXCEPT !.streams[S.stream].status = "destroyed",
                                  !.streams[S.stream].queue = <<>>,
                                  !.lost = @ \o Flatten(S.streams[S.stream].queue)]
                   ELSE S
  IN [destroyed EXCEPT !.streams = Append(@, NewStream), !.stream = Len(S.streams) + 1]

\* writeStream.write(content): queued; refused with an 'error' when end() was
\* called before, and the stream is then destroyed with what it had queued
streamWrite(S, s, content) ==
  IF S.streams[s].ending \/ S.streams[s].status = "destroyed"
  THEN [S EXCEPT !.streams[s].status = "destroyed",
                 !.streams[s].errored = TRUE,
                 !.streams[s].queue = <<>>,
                 !.lost = @ \o Flatten(S.streams[s].queue) \o content]
  ELSE [S EXCEPT !.streams[s].queue = Append(@, content)]

\* variant: the files are sorted by ascending modification time
cleanupOldBackupsAscending(S) ==
  IF Cardinality(DOMAIN S.backups) <= S.opts.maxBackupFiles THEN S
  ELSE LET keep == CHOOSE K \in SUBSET DOMAIN S.backups :
                     /\ Cardinality(K) = S.opts.maxBackupFiles
                     /\ \A k \in K, d \in DOMAIN S.backups \ K :
                          S.inodes[S.backups[k]].mtime <= S.inodes[S.backups[d]].mtime
       IN [S EXCEPT !.backups = [k \in keep |-> S.backups[k]]]

\* FileAdapter.cleanupOldBackups: the maxBackupFiles most recently modified
\* files named filePath.* are kept
cleanupOldBackups(S) ==
  IF Cardinality(DOMAIN S.backups) <= S.opts.maxBackupFiles THEN S
  ELSE LET keep == CHOOSE K \in SUBSET DOMAIN S.backups :
                     /\ Cardinality(K) = S.opts.maxBackupFiles
                     /\ \A k \in K, d \in DOMAIN S.backups \ K :
                          S.inodes[S.backups[k]].mtime >= S.inodes[S.backups[d]].mtime
       IN [S EXCEPT !.backups = [k \in keep |-> S.backups[k]]]

\* FileAdapter.rotateFile: when renameSync throws, the catch block reports it
\* and nothing of the rest of the try block has run
rotateFile(S) ==
  LET ended == IF S.stream # 0
               THEN [S EXCEPT !.streams[S.stream].ending = TRUE, !.stream = 0]
               ELSE S
      backupPath == S.clock
      renamed == IF ended.pathInode # 0
                 THEN [ended EXCEPT
                         !.backups = [n \in DOMAIN ended.backups \cup {backupPath} |->
                                        IF n = backupPath THEN ended.pathInode
                                        ELSE ended.backups[n]],
                         !.pathInode = 0]
                 ELSE ended
      cleaned == cleanupOldBackups(renamed)
      logged == [cleaned EXCEPT
                   !.size = 0,
                   !.rotLog = Append(@, [backup |-> IF ended.pathInode # 0 THEN backupPath
                                                    ELSE -1,
                                         size |-> 0,
                                         opened |-> S.stream # 0 /\
                                                    S.streams[S.stream].status = "open"])]
  IN IF ended.pathInode # 0 /\ S.env.renameThrows
     THEN ended
     ELSE createWriteStream(logged)

\* FileAdapter.flushBuffer
\* variant: the buffer is not emptied
flushBufferKeepsBuffer(S) ==
  IF Len(S.buffer) = 0 \/ S.stream = 0 THEN S
  ELSE LET content == S.buffer
           written == streamWrite(S, S.stream, content)
           counted == [written EXCEPT
                         !.size = @ + Len(content),
                         !.handed = @ \o [i \in 1..Len(content) |->
                                           [line |-> content[i], rotation |-> Len(S.rotLog)]]]
       IN IF counted.opts.rotateOnSize /\ counted.size >= counted.opts.maxFileSize
          THEN rotateFile(counted)
          ELSE counted

flushBuffer(S) ==
  IF Len(S.buffer) = 0 \/ S.stream = 0 THEN S
  ELSE LET content == S.buffer
           written == streamWrite([S EXCEPT !.buffer = <<>>], S.stream, content)
           counted == [written EXCEPT
                         !.size = @ + Len(content),
                         !.handed = @ \o [i \in 1..Len(content) |->
                                           [line |-> content[i], rotation |-> Len(S.rotLog)]]]
       IN IF counted.opts.rotateOnSize /\ counted.size >= counted.opts.maxFileSize
          THEN rotateFile(counted)
          ELSE counted

\* new Date().toISOString().split('T')[0] of a time: a day is longer than a run
DayLength == MaxClock + 1
DayOf(t) == t \div DayLength

\* the name `${filePath}.${today}` among the files named filePath.*, whose
\* other names are the times of the rotations that made them
DatedName(t) == MaxClock + 1 + DayOf(t)

\* FileAdapter.checkRotation
checkRotation(S) ==
  LET daily == IF /\ S.opts.rotateDaily
                  /\ DatedName(S.clock) \in DOMAIN S.backups
                  /\ S.pathInode # 0
                  /\ DayOf(S.inodes[S.pathInode].mtime) # DayOf(S.clock)
               THEN rotateFile(S)
               ELSE S
  IN IF daily.opts.rotateOnSize /\ daily.size >= daily.opts.maxFileSize
     THEN rotateFile(daily)
     ELSE daily

\* FileAdapter.startFlushTimer: whether setInterval is called
startFlushTimer(options) ==
  "flushInterval" \notin options.unset /\ options.flushInterval > 0

\* FileAdapter.initializeFile, in a directory that exists and is writable
initializeFile(S) ==
  LET sized == IF S.pathInode # 0
               THEN [S EXCEPT !.size = Len(S.inodes[S.pathInode].content)]
               ELSE S
  IN createWriteStream(checkRotation(sized))

\* the configurations and directories the adapter is constructed on
NoBackups == [n \in {} |-> 0]
EmptyDirectory == [inodes |-> <<>>, pathInode |-> 0, backups |-> NoBackups]
OneLineDirectory ==
  [inodes |-> <<[content |-> <<0>>, mtime |-> 0]>>, pathInode |-> 1, backups |-> NoBackups]

\* directories of earlier runs: the log file, absent or of one line last
\* written yesterday or today; backups of earlier rotations; a file named for
\* today's date
StaleTime == 0 - 3
OlderBackup == 0 - 20
OldBackup == 0 - 10
DirectoryOf(files, others) ==
  LET names == CHOOSE q \in [1..Cardinality(others) -> others] :
                 \A i, j \in DOMAIN q : i < j => q[i] < q[j]
  IN [inodes |-> [i \in 1..Len(files) |-> [content |-> <<0>>, mtime |-> files[i]]] \o
                 [i \in 1..Cardinality(others) |->
                    [content |-> <<0>>,
                     mtime |-> IF names[i] = DatedName(0) THEN 0 ELSE names[i]]],
      pathInode |-> Len(files),
      backups |-> [n \in others |->
                     Len(files) + CHOOSE i \in DOMAIN names : names[i] = n]]

RotationDirectories ==
  {DirectoryOf(files, others) :
     files \in {<<>>, <<StaleTime>>}, others \in SUBSET {OlderBackup, OldBackup}}

RotationOptionInputs ==
  {[bufferSize |-> 1, maxFileSize |-> 1, rotateOnSize |-> TRUE, rotateDaily |-> FALSE,
    maxBackupFiles |-> n, flushInterval |-> 5000, unset |-> {}] : n \in {1, 2}}

DailyDirectories ==
  {DirectoryOf(files, others) :
     files \in {<<>>, <<StaleTime>>, <<0>>}, others \in SUBSET {DatedName(0)}}

DailyOptionInputs ==
  {[bufferSize |-> 1, maxFileSize |-> 2, rotateOnSize |-> TRUE, rotateDaily |-> day,
    maxBackupFiles |-> 5, flushInterval |-> 5000, unset |-> {}] : day \in BOOLEAN}

FileOptionInputs ==
  {[bufferSize |-> b, maxFileSize |-> 2, rotateOnSize |-> r, rotateDaily |-> FALSE,
    maxBackupFiles |-> 5, flushInterval |-> 5000, unset |-> {}] :
     b \in {1, 2}, r \in BOOLEAN}

\* new FileAdapter(options): initializeFile, then startFlushTimer outside test
\* environments. For InitFile the file is absent or holds one line of an
\* earlier run.
InitFileOn(envs, optionInputs, directories) ==
  \E env \in envs, options \in optionInputs, dir \in directories :
    LET S == initializeFile([env |-> env, opts |-> options, buffer |-> <<>>, size |-> 0,
                             stream |-> 0, streams |-> <<>>, inodes |-> dir.inodes,
                             pathInode |-> dir.pathInode, backups |-> dir.backups,
                             clock |-> 0, handed |-> <<>>, lost |-> <<>>, rotLog |-> <<>>])
    IN /\ fEnv = env
       /\ fOpts = options
       /\ fBuffer = S.buffer
       /\ fSize = S.size
       /\ fStream = S.stream
       /\ streams = S.streams
       /\ inodes = S.inodes
       /\ pathInode = S.pathInode
       /\ backups = S.backups
       /\ fTimer = (~env.test /\ startFlushTimer(options))
       /\ clock = 0
       /\ fCalls = <<>>
       /\ accepted = 0
       /\ writers = <<>>
       /\ handed = S.handed
       /\ lost = S.lost
       /\ rotLog = S.rotLog
       /\ fErrors = 0

InitFile ==
  InitFileOn([test : BOOLEAN, renameThrows : {FALSE}], FileOptionInputs,
             {EmptyDirectory, OneLineDirectory})

\* the Loggers that hold the adapter (Logger.writeToAdapters calls write)
Loggers == {"a", "b"}

\* FileAdapter.write(entry), called by Logger w, for an entry that passes the
\* level filter
FileWrite(w) ==
  /\ accepted < MaxWrites
  /\ accepted' = accepted + 1
  /\ writers' = Append(writers, w)
  /\ LET pushed == [FileState EXCEPT !.buffer = Append(@, accepted + 1)]
     IN SetFileState(IF "bufferSize" \notin fOpts.unset /\ Len(pushed.buffer) >= fOpts.bufferSize
                     THEN flushBuffer(pushed) ELSE pushed)
  /\ UNCHANGED <<fEnv, fOpts, fTimer, clock, fCalls, fErrors>>
  /\ UNCHANGED nonFileVars

\* the setInterval callback: this.flushBuffer()
TimerTick ==
  /\ fTimer
  /\ SetFileState(flushBuffer(FileState))
  /\ UNCHANGED <<fEnv, fOpts, fTimer, clock, fCalls, accepted, writers, fErrors>>
  /\ UNCHANGED nonFileVars

\* FileAdapter.flush() up to its await ("flush"), and Logger.flush() on a
\* logger holding this adapter ("loggerFlush": Promise.all over the adapters'
\* flush()): the buffer is flushed and the call waits for 'finish' or 'error'
\* of the current stream, or is done when there is none
FlushCall(kind) ==
  /\ Len(fCalls) < MaxCalls
  /\ LET S == IF Len(fBuffer) > 0 THEN flushBuffer(FileState) ELSE FileState
     IN /\ SetFileState(S)
        /\ fCalls' = Append(fCalls, [kind |-> kind,
                                     pc |-> IF S.stream # 0 THEN "awaitFinish" ELSE "resolved",
                                     stream |-> S.stream])
  /\ UNCHANGED <<fEnv, fOpts, fTimer, clock, accepted, writers, fErrors>>
  /\ UNCHANGED nonFileVars

\* FileAdapter.close() up to its await of this.flush()
CloseCall ==
  /\ Len(fCalls) < MaxCalls
  /\ fTimer' = FALSE
  /\ LET S == IF Len(fBuffer) > 0 THEN flushBuffer(FileState) ELSE FileState
     IN /\ SetFileState(S)
        /\ fCalls' = Append(fCalls, [kind |-> "close",
                                     pc |-> IF S.stream # 0 THEN "awaitFinish" ELSE "afterFlush",
                                     stream |-> S.stream])
  /\ UNCHANGED <<fEnv, fOpts, clock, accepted, writers, fErrors>>
  /\ UNCHANGED nonFileVars

\* close() after its flush() resolved: writeStream.end(callback), or done
CloseContinue(c) ==
  /\ fCalls[c].kind = "close"
  /\ fCalls[c].pc = "afterFlush"
  /\ IF fStream # 0
     THEN /\ streams' = [streams EXCEPT ![fStream].ending = TRUE, ![fStream].endCb = c]
          /\ fCalls' = [fCalls EXCEPT ![c].pc = "awaitEnd", ![c].stream = fStream]
     ELSE /\ streams' = streams
          /\ fCalls' = [fCalls EXCEPT ![c].pc = "resolved"]
  /\ UNCHANGED <<fEnv, fOpts, fBuffer, fSize, fStream, fTimer, inodes, pathInode, backups, clock,
                 accepted, writers, handed, lost, rotLog, fErrors>>
  /\ UNCHANGED nonFileVars

\* FileAdapter.updateOptions(partial): bufferSize and flushInterval are
\* assigned from partial, undefined when it does not have them; with a
\* flushInterval the timer is cleared and startFlushTimer is called
FileUpdateInputs ==
  {[flushInterval |-> 1000], [flushInterval |-> 0],
   [bufferSize |-> 2, flushInterval |-> 1000], [logLevel |-> "DEBUG"]}

FileAdapterUpdateOptions(partial) ==
  /\ fOpts' = [fOpts EXCEPT
                 !.bufferSize = IF "bufferSize" \in DOMAIN partial
                                THEN partial.bufferSize ELSE 0,
                 !.flushInterval = IF "flushInterval" \in DOMAIN partial
                                   THEN partial.flushInterval ELSE 0,
                 !.unset = {"bufferSize", "flushInterval"} \ DOMAIN partial]
  /\ fTimer' = IF "flushInterval" \in DOMAIN partial THEN startFlushTimer(fOpts') ELSE fTimer
  /\ UNCHANGED <<fEnv, fBuffer, fSize, fStream, streams, inodes, pathInode, backups, clock,
                 fCalls, accepted, writers, handed, lost, rotLog, fErrors>>
  /\ UNCHANGED nonFileVars

\* the stream's file is opened (flags 'a'): created when no file has the name
StreamOpen(s) ==
  /\ streams[s].status = "opening"
  /\ IF pathInode = 0
     THEN /\ inodes' = Append(inodes, [content |-> <<>>, mtime |-> clock])
          /\ pathInode' = Len(inodes) + 1
     ELSE UNCHANGED <<inodes, pathInode>>
  /\ streams' = [streams EXCEPT ![s].status = "open", ![s].inode = pathInode']
  /\ UNCHANGED <<fEnv, fOpts, fBuffer, fSize, fStream, fTimer, backups, clock, fCalls, accepted, writers,
                 handed, lost, rotLog, fErrors>>
  /\ UNCHANGED nonFileVars

\* the stream writes its oldest pending chunk to its file
StreamWriteChunk(s) ==
  /\ streams[s].status = "open"
  /\ streams[s].queue # <<>>
  /\ inodes' = [inodes EXCEPT ![streams[s].inode].content = @ \o Head(streams[s].queue),
                              ![streams[s].inode].mtime = clock]
  /\ streams' = [streams EXCEPT ![s].queue = Tail(@)]
  /\ UNCHANGED <<fEnv, fOpts, fBuffer, fSize, fStream, fTimer, pathInode, backups, clock, fCalls,
                 accepted, writers, handed, lost, rotLog, fErrors>>
  /\ UNCHANGED nonFileVars

\* what a call does when the stream it waits on settles
Settled(call, s, how) ==
  IF call.stream # s THEN call
  ELSE IF call.pc = "awaitFinish"
    THEN [call EXCEPT !.pc = IF how = "error" THEN "rejected"
                             ELSE IF call.kind = "close" THEN "afterFlush" ELSE "resolved"]
  ELSE IF call.pc = "awaitEnd" THEN [call EXCEPT !.pc = "resolved"]
  ELSE call

\* 'finish': end() was called and every chunk is written. The once('finish')
\* listeners of flush() and the callback of end() run.
StreamFinish(s) ==
  /\ streams[s].status = "open"
  /\ streams[s].ending
  /\ streams[s].queue = <<>>
  /\ streams' = [streams EXCEPT ![s].status = "closed", ![s].finished = TRUE]
  /\ fCalls' = [c \in DOMAIN fCalls |-> Settled(fCalls[c], s, "finish")]
  /\ fStream' = IF streams[s].endCb # 0 THEN 0 ELSE fStream
  /\ UNCHANGED <<fEnv, fOpts, fBuffer, fSize, fTimer, inodes, pathInode, backups, clock, accepted, writers,
                 handed, lost, rotLog, fErrors>>
  /\ UNCHANGED nonFileVars

\* 'error' of a stream written to after end(): reported by the adapter's
\* listener; the once('error') listeners of flush() reject, the callback of
\* end() runs
StreamEmitError(s) ==
  /\ streams[s].errored
  /\ streams' = [streams EXCEPT ![s].errored = FALSE]
  /\ fErrors' = fErrors + 1
  /\ fCalls' = [c \in DOMAIN fCalls |-> Settled(fCalls[c], s, "error")]
  /\ fStream' = IF streams[s].endCb # 0 THEN 0 ELSE fStream
  /\ UNCHANGED <<fEnv, fOpts, fBuffer, fSize, fTimer, inodes, pathInode, backups, clock, accepted, writers,
                 handed, lost, rotLog>>
  /\ UNCHANGED nonFileVars

\* a millisecond passes
Tick ==
  /\ clock < MaxClock
  /\ clock' = clock + 1
  /\ UNCHANGED <<fEnv, fOpts, fBuffer, fSize, fStream, fTimer, streams, inodes, pathInode, backups,
                 fCalls, accepted, writers, handed, lost, rotLog, fErrors>>
  /\ UNCHANGED nonFileVars

\* what the event loop runs by itself
StreamStep ==
  \/ \E s \in DOMAIN streams : StreamOpen(s)
  \/ \E s \in DOMAIN streams : StreamWriteChunk(s)
  \/ \E s \in DOMAIN streams : StreamFinish(s)
  \/ \E s \in DOMAIN streams : StreamEmitError(s)
  \/ \E c \in DOMAIN fCalls : CloseContinue(c)
  \/ TimerTick

FileStep ==
  \/ FileWrite("a")
  \/ \E kind \in {"flush", "loggerFlush"} : FlushCall(kind)
  \/ CloseCall
  \/ Tick
  \/ StreamStep

\* the same adapter held by several Loggers that write and flush and never
\* close it
SharedFileStep ==
  \/ \E w \in Loggers : FileWrite(w)
  \/ FlushCall("loggerFlush")
  \/ TimerTick
  \/ Tick
  \/ \E s \in DOMAIN streams : StreamOpen(s)
  \/ \E s \in DOMAIN streams : StreamWriteChunk(s)
  \/ \E s \in DOMAIN streams : StreamFinish(s)

NoFile ==
  /\ fEnv = [test |-> TRUE, renameThrows |-> FALSE]
  /\ fOpts = [bufferSize |-> 1, maxFileSize |-> 2, rotateOnSize |-> TRUE, rotateDaily |-> FALSE,
              maxBackupFiles |-> 5, flushInterval |-> 5000, unset |-> {}]
  /\ fBuffer = <<>>
  /\ fSize = 0
  /\ fStream = 1
  /\ fTimer = FALSE
  /\ streams = <<NewStream>>
  /\ inodes = <<>>
  /\ pathInode = 0
  /\ backups = [n \in {} |-> 0]
  /\ clock = 0
  /\ fCalls = <<>>
  /\ accepted = 0
  /\ writers = <<>>
  /\ handed = <<>>
  /\ lost = <<>>
  /\ rotLog = <<>>
  /\ fErrors = 0

-----------------------------------------------------------------------------
(* ContextManager (context.ts): setContext, clearContext, pushContext and   *)
(* popContext on one instance.                                              *)
CmSetInputs == {[correlationId |-> Str("c1")]}
PushInputs == {NoFields, [operation |-> Str("x")], [correlationId |-> Str("c2")]}

NoPop == [op |-> "none"]

InitContext ==
  /\ cmCurrent = NoFields
  /\ cmStack = <<>>
  /\ cmBefore = <<>>
  /\ cmLast = NoPop

\* getContext(): a copy of the current context
getContext(current) == Spread(NoFields, current)

\* ContextManager.setContext
CmSetContext(partial) ==
  /\ cmCurrent' = Spread(cmCurrent, partial)
  /\ cmLast' = NoPop
  /\ UNCHANGED <<cmStack, cmBefore>>
  /\ UNCHANGED nonContextVars

\* ContextManager.clearContext
CmClearContext ==
  /\ cmCurrent' = NoFields
  /\ cmLast' = NoPop
  /\ UNCHANGED <<cmStack, cmBefore>>
  /\ UNCHANGED nonContextVars

\* the context pushContext(newContext) makes current
\* variant: the saved copy is taken after the merge
savedByPushAfterMerge(current, newContext) ==
  Spread(Spread(current, newContext),
         [parentCorrelationId |-> Get(Obj(current), "correlationId")])

\* the copy pushContext puts on the stack: { ...this.currentContext }
savedByPush(current, newContext) == Spread(NoFields, current)

pushedContext(current, newContext) ==
  Spread(Spread(current, newContext),
         [parentCorrelationId |-> Get(Obj(current), "correlationId")])

\* ContextManager.pushContext(newContext)
PushContext(newContext) ==
  /\ Len(cmStack) < MaxDepth
  /\ cmBefore' = Append(cmBefore, getContext(cmCurrent))
  /\ cmStack' = Append(cmStack, savedByPush(cmCurrent, newContext))
  /\ cmCurrent' = pushedContext(cmCurrent, newContext)
  /\ cmLast' = NoPop
  /\ UNCHANGED nonContextVars

\* ContextManager.popContext(): Array.pop, then the current context is
\* replaced when something was popped (an object is truthy, also when empty)
PopContext ==
  /\ LET previous == IF cmStack = <<>> THEN Undefined ELSE Obj(cmStack[Len(cmStack)])
     IN /\ cmStack' = IF cmStack = <<>> THEN <<>> ELSE SubSeq(cmStack, 1, Len(cmStack) - 1)
        /\ cmCurrent' = IF Truthy(previous) THEN previous.f ELSE cmCurrent
        /\ cmLast' = [op |-> "pop", returned |-> previous, current |-> cmCurrent,
                      before |-> cmBefore]
  /\ cmBefore' = IF cmBefore = <<>> THEN <<>> ELSE SubSeq(cmBefore, 1, Len(cmBefore) - 1)
  /\ UNCHANGED nonContextVars

ContextStep ==
  \/ \E partial \in CmSetInputs : CmSetContext(partial)
  \/ CmClearContext
  \/ \E newContext \in PushInputs : PushContext(newContext)
  \/ PopContext

NoContext ==
  /\ cmCurrent = NoFields
  /\ cmStack = <<>>
  /\ cmBefore = <<>>
  /\ cmLast = NoPop

-----------------------------------------------------------------------------
(* withContext(context, fn) on the global ContextManager (context.ts): the  *)
(* calls interleave at their await; fn leaves the manager alone.            *)
Tasks == 1..NumTasks

WithInputs == {NoFields, [correlationId |-> Str("c2")], [operation |-> Str("x")]}

\* fn throws before returning ("throws"), or returns a value or a promise that
\* is awaited ("awaits") and then fulfils ("returns") or rejects ("rejects")
\* the finally block runs popContext() on every exit of the try block
\* variant: popContext() only follows a result
popsOnExitOfResult(how) == how = "returns"

popsOnExit(how) == TRUE

\* the manager after popContext()
AfterPop(current, stack) ==
  IF stack = <<>> THEN [current |-> current, stack |-> stack]
  ELSE [current |-> stack[Len(stack)], stack |-> SubSeq(stack, 1, Len(stack) - 1)]

InitWith ==
  /\ cmCurrent \in {NoFields, [correlationId |-> Str("c1"), userId |-> Str("u1")]}
  /\ cmStack = <<>>
  /\ cmBefore = <<>>
  /\ cmLast = NoPop
  /\ wcPc = [t \in Tasks |-> "idle"]
  /\ wcInitial = cmCurrent
  /\ wcLog = <<>>

\* withContext(context, fn) up to its await: pushContext(context), then fn is
\* called with a copy of the current context; when fn throws, the finally
\* block runs at once
WithContextCall(t, context, how) ==
  /\ wcPc[t] = "idle"
  /\ LET pushed == [current |-> pushedContext(cmCurrent, context),
                    stack |-> Append(cmStack, savedByPush(cmCurrent, context))]
         left == IF how = "throws" /\ popsOnExit(how)
                 THEN AfterPop(pushed.current, pushed.stack) ELSE pushed
     IN /\ cmCurrent' = left.current
        /\ cmStack' = left.stack
  /\ wcPc' = [wcPc EXCEPT ![t] = IF how = "throws" THEN "settled" ELSE "running"]
  /\ wcLog' = wcLog \o (IF how = "throws" THEN <<[e |-> "start", t |-> t], [e |-> "threw", t |-> t]>>
                        ELSE <<[e |-> "start", t |-> t]>>)
  /\ UNCHANGED <<cmBefore, cmLast, wcInitial>>
  /\ UNCHANGED nonWithContextVars

\* the promise awaited by withContext settles: the finally block runs
WithContextSettles(t, how) ==
  /\ wcPc[t] = "running"
  /\ LET left == IF popsOnExit(how) THEN AfterPop(cmCurrent, cmStack)
                 ELSE [current |-> cmCurrent, stack |-> cmStack]
     IN /\ cmCurrent' = left.current
        /\ cmStack' = left.stack
  /\ wcPc' = [wcPc EXCEPT ![t] = "settled"]
  /\ wcLog' = Append(wcLog, [e |-> IF how = "returns" THEN "returned" ELSE "threw", t |-> t])
  /\ UNCHANGED <<cmBefore, cmLast, wcInitial>>
  /\ UNCHANGED nonWithContextVars

WithStep ==
  \/ \E t \in Tasks, context \in WithInputs, how \in {"throws", "awaits"} :
       WithContextCall(t, context, how)
  \/ \E t \in Tasks, how \in {"returns", "rejects"} : WithContextSettles(t, how)

NoWith ==
  /\ wcPc = <<>>
  /\ wcInitial = NoFields
  /\ wcLog = <<>>

-----------------------------------------------------------------------------
(* Identifier formats, sanitizeContext and header propagation (context.ts). *)
(* The text of an identifier is given by its characters, so that the        *)
(* patterns are tested as the regular expressions test them.                *)

UuidChars(version, variant) ==
  Rep("1", 8) \o <<"-">> \o Rep("a", 4) \o <<"-", version>> \o Rep("b", 3) \o
  <<"-", variant>> \o Rep("c", 3) \o <<"-">> \o Rep("d", 12)

\* the identifier texts of the model
SampleChars ==
  {<<>>,
   UuidChars("4", "8"), UuidChars("4", "B"), UuidChars("1", "8"), UuidChars("4", "c"),
   Rep("a", 32), Rep("A", 16) \o Rep("0", 16), Rep("a", 31), Rep("g", 32),
   Rep("f", 16), Rep("f", 17), Rep("z", 16),
   <<"u", "1">>, <<"s", "1">>, <<"r", "1">>,
   <<"b", "a", "s", "e", "-", "c", "o", "r", "r">>,
   <<"c", "u", "r", "-", "c", "o", "r", "r">>,
   <<"d", "a", "t", "a", "-", "c", "o", "r", "r">>}
  \cup {GeneratedUuidChars(n) : n \in DOMAIN GeneratedIds}

SampleTexts == [chars \in SampleChars |-> Text(chars)]

CharsOf(text) == CHOOSE chars \in SampleChars : SampleTexts[chars] = text

\* [0-9a-f] under the i flag
HexDigits ==
  {"0", "1", "2", "3", "4", "5", "6", "7", "8", "9",
   "a", "b", "c", "d", "e", "f", "A", "B", "C", "D", "E", "F"}

AllHex(chars, from, to) == \A i \in from..to : chars[i] \in HexDigits

\* regex.test(value) coerces value to a string; the texts of null, undefined,
\* numbers, booleans and objects match none of the patterns
\* /^[0-9a-f]{8}-[0-9a-f]{4}-4[0-9a-f]{3}-[89ab][0-9a-f]{3}-[0-9a-f]{12}$/i
isValidCorrelationId(v) ==
  /\ v.t = "string"
  /\ LET c == CharsOf(v.v)
     IN /\ Len(c) = 36
        /\ AllHex(c, 1, 8) /\ c[9] = "-"
        /\ AllHex(c, 10, 13) /\ c[14] = "-"
        /\ c[15] = "4" /\ AllHex(c, 16, 18) /\ c[19] = "-"
        /\ c[20] \in {"8", "9", "a", "b", "A", "B"} /\ AllHex(c, 21, 23) /\ c[24] = "-"
        /\ AllHex(c, 25, 36)

\* /^[0-9a-f]{32}$/i
isValidTraceId(v) ==
  /\ v.t = "string"
  /\ LET c == CharsOf(v.v) IN Len(c) = 32 /\ AllHex(c, 1, 32)

\* /^[0-9a-f]{16}$/i
isValidSpanId(v) ==
  /\ v.t = "string"
  /\ LET c == CharsOf(v.v) IN Len(c) = 16 /\ AllHex(c, 1, 16)

\* if (cond) target[k] = v
FieldIf(cond, k, v) == IF cond THEN [x \in {k} |-> v] ELSE NoFields

\* the union of field maps with distinct keys
RECURSIVE Collect(_)
Collect(maps) == IF maps = <<>> THEN NoFields ELSE Spread(Head(maps), Collect(Tail(maps)))

\* ContextManager.sanitizeContext
sanitizeContext(context) ==
  LET at(k) == Get(Obj(context), k)
  IN Collect(<<
       FieldIf(Truthy(at("correlationId")) /\ isValidCorrelationId(at("correlationId")),
               "correlationId", at("correlationId")),
       FieldIf(Truthy(at("traceId")) /\ isValidTraceId(at("traceId")),
               "traceId", at("traceId")),
       FieldIf(Truthy(at("spanId")) /\ isValidSpanId(at("spanId")), "spanId", at("spanId")),
       FieldIf(Truthy(at("userId")), "userId", at("userId")),
       FieldIf(Truthy(at("sessionId")), "sessionId", at("sessionId")),
       FieldIf(Truthy(at("requestId")), "requestId", at("requestId")),
       FieldIf(Truthy(at("parentCorrelationId")) /\
                 isValidCorrelationId(at("parentCorrelationId")),
               "parentCorrelationId", at("parentCorrelationId"))>>)

\* the context fields that travel in headers, with their header names
HeaderFields ==
  <<"correlationId", "traceId", "spanId", "requestId", "userId", "sessionId">>

HeaderName(k) ==
  CASE k = "correlationId" -> "x-correlation-id"
    [] k = "traceId" -> "x-trace-id"
    [] k = "spanId" -> "x-span-id"
    [] k = "requestId" -> "x-request-id"
    [] k = "userId" -> "x-user-id"
    [] k = "sessionId" -> "x-session-id"

\* ContextManager.toHeaders
\* variant: the user id is not put in a header
toHeadersNoUser(context) ==
  Collect([i \in DOMAIN HeaderFields |->
             LET k == HeaderFields[i]
             IN FieldIf(k # "userId" /\ Truthy(Get(Obj(context), k)), HeaderName(k),
                        Get(Obj(context), k))])

toHeaders(context) ==
  Collect([i \in DOMAIN HeaderFields |->
             LET k == HeaderFields[i]
             IN FieldIf(Truthy(Get(Obj(context), k)), HeaderName(k), Get(Obj(context), k))])

\* ContextManager.extractFromHeaders
extractFromHeaders(headers) ==
  Collect([i \in DOMAIN HeaderFields |->
             LET k == HeaderFields[i]
             IN FieldIf(Truthy(Get(Obj(headers), HeaderName(k))), k,
                        Get(Obj(headers), HeaderName(k)))])

\* the contexts propagated: every header field is absent, undefined, or one of
\* a few texts, well-formed or not; operation never travels
HeaderValues(k) ==
  CASE k = "correlationId" ->
         {Str(Text(UuidChars("4", "8"))), Str(Text(UuidChars("1", "8"))), Undefined}
    [] k = "traceId" -> {Str(Text(Rep("A", 16) \o Rep("0", 16))), Str(Text(Rep("a", 31)))}
    [] k = "spanId" -> {Str(Text(Rep("f", 16))), Str(Text(Rep("z", 16)))}
    [] k = "requestId" -> {Str("r1")}
    [] k = "userId" -> {Str("u1"), Str("")}
    [] k = "sessionId" -> {Str("s1")}
    [] k = "operation" -> {Str("op")}

RECURSIVE ContextsOver(_)
ContextsOver(keys) ==
  IF keys = <<>> THEN {NoFields}
  ELSE LET rest == ContextsOver(Tail(keys))
       IN rest \cup {Spread(r, [x \in {Head(keys)} |-> v]) :
                       r \in rest, v \in HeaderValues(Head(keys))}

HeaderContexts == ContextsOver(HeaderFields \o <<"operation">>)

InitHeader ==
  /\ hContext \in HeaderContexts
  /\ hHeaders = Undefined
  /\ hExtracted = Undefined

\* the sender: headers = ContextManager.toHeaders(context)
ToHeaders ==
  /\ hHeaders = Undefined
  /\ hHeaders' = Obj(toHeaders(hContext))
  /\ UNCHANGED <<hContext, hExtracted>>
  /\ UNCHANGED nonHeaderVars

\* the receiver: ContextManager.extractFromHeaders(headers)
ExtractFromHeaders ==
  /\ hHeaders # Undefined
  /\ hExtracted = Undefined
  /\ hExtracted' = Obj(extractFromHeaders(hHeaders.f))
  /\ UNCHANGED <<hContext, hHeaders>>
  /\ UNCHANGED nonHeaderVars

HeaderStep ==
  \/ ToHeaders
  \/ ExtractFromHeaders

NoHeader ==
  /\ hContext = NoFields
  /\ hHeaders = Undefined
  /\ hExtracted = Undefined

-----------------------------------------------------------------------------
(* Logger.child: a parent Logger and the Logger child(context) returned,    *)
(* with the objects each of them holds.                                     *)
ChildContexts == {NoFields, [userId |-> Str("u9")], [correlationId |-> Str("child-corr")]}

\* new Logger(service, environment, emojiResolver, adapters, baseContext):
\* the resolver and the adapter array are held by reference
NewLogger(svc, env, resolver, ads, base) ==
  [service |-> svc, environment |-> env, resolver |-> resolver, adapters |-> ads,
   base |-> base, current |-> base]

InitFamily ==
  /\ \E base \in BaseContexts :
       famLoggers = [l \in {"parent"} |-> NewLogger(Str("svc"), Str("test"), 1, 1, base)]
  /\ famResolvers = [r \in {1} |-> FALSE]
  /\ famEmitted = [l \in {"parent"} |-> Undefined]
  /\ famCalls = 0
  /\ famActor = "none"

\* parent.child(context)
Child(context) ==
  /\ "child" \notin DOMAIN famLoggers
  /\ LET p == famLoggers["parent"]
         made == NewLogger(p.service, p.environment, p.resolver, p.adapters,
                           Spread(p.base, context))
     IN famLoggers' = [l \in {"parent", "child"} |-> IF l = "child" THEN made ELSE p]
  /\ famEmitted' = [l \in {"parent", "child"} |->
                      IF l = "child" THEN Undefined ELSE famEmitted[l]]
  /\ famActor' = "parent"
  /\ UNCHANGED <<famResolvers, famCalls>>
  /\ UNCHANGED nonFamilyVars

\* l.setContext(partial)
FamSetContext(l, partial) ==
  /\ l \in DOMAIN famLoggers
  /\ famLoggers' = [famLoggers EXCEPT ![l].current = Spread(@, partial)]
  /\ famActor' = l
  /\ UNCHANGED <<famResolvers, famEmitted, famCalls>>
  /\ UNCHANGED nonFamilyVars

\* l.setEmojisEnabled(enabled): this.emojiResolver.setEnabled(enabled)
FamSetEmojisEnabled(l, enabled) ==
  /\ l \in DOMAIN famLoggers
  /\ famResolvers' = [famResolvers EXCEPT ![famLoggers[l].resolver] = enabled]
  /\ famActor' = l
  /\ UNCHANGED <<famLoggers, famEmitted, famCalls>>
  /\ UNCHANGED nonFamilyVars

\* the entry l.info('hello') builds and passes to its adapters
FamEntry(l, n) ==
  createLogEntry("INFO", Str("hello"), Undefined, famLoggers[l].service,
                 famLoggers[l].environment, famResolvers[famLoggers[l].resolver],
                 famLoggers[l].base, famLoggers[l].current, n)

\* l.info('hello')
FamLog(l) ==
  /\ l \in DOMAIN famLoggers
  /\ famCalls < MaxLogs
  /\ famCalls' = famCalls + 1
  /\ famEmitted' = [famEmitted EXCEPT ![l] = FamEntry(l, famCalls + 1)]
  /\ famActor' = l
  /\ UNCHANGED <<famLoggers, famResolvers>>
  /\ UNCHANGED nonFamilyVars

FamilyStep ==
  \/ \E context \in ChildContexts : Child(context)
  \/ \E l \in {"parent", "child"}, partial \in SetContextInputs : FamSetContext(l, partial)
  \/ \E l \in {"parent", "child"}, enabled \in BOOLEAN : FamSetEmojisEnabled(l, enabled)
  \/ \E l \in {"parent", "child"} : FamLog(l)

NoFamily ==
  /\ famLoggers = [l \in {"parent"} |-> NewLogger(Str("svc"), Str("test"), 1, 1, NoFields)]
  /\ famResolvers = [r \in {1} |-> FALSE]
  /\ famEmitted = [l \in {"parent"} |-> Undefined]
  /\ famCalls = 0
  /\ famActor = "none"

-----------------------------------------------------------------------------
(* EmojiResolver.getEmoji called on a resolver (emoji.ts)                   *)
NoMappings == [k \in {} |-> ""]

ResolverMappings ==
  {NoMappings, [CUSTOM |-> "[star]"], [SYSTEM_START |-> "[gear]", BLANK |-> ""]}

GetEmojiEvents ==
  {Undefined, Null, Num(123), Obj(NoFields), Str(""), Str("SYSTEM_START"), Str("CUSTOM"),
   Str("BLANK"), Str("UNKNOWN_EVENT"), Str("constructor")}

FallbackEmojis == {Undefined, Null, Str("[?]"), Str("")}

NotCalled == [t |-> "not called"]

InitEmoji ==
  /\ eArgs \in [enabled : BOOLEAN, custom : ResolverMappings, event : GetEmojiEvents,
                fallback : FallbackEmojis]
  /\ eResult = NotCalled

\* resolver.getEmoji(event, fallback)
GetEmoji ==
  /\ eResult = NotCalled
  /\ eResult' = getEmojiOr(eArgs.enabled, eArgs.custom, eArgs.event, eArgs.fallback)
  /\ UNCHANGED eArgs
  /\ UNCHANGED nonEmojiVars

EmojiStep == GetEmoji

NoEmoji ==
  /\ eArgs = [enabled |-> FALSE, custom |-> NoMappings, event |-> Undefined,
              fallback |-> Undefined]
  /\ eResult = NotCalled

-----------------------------------------------------------------------------
(* LoggerFactory (factory.ts)                                               *)
Arr(items) == [t |-> "array", a |-> items]

\* an EmojiResolver object: enabled and customMappings (event -> emoji text)
Resolver(enabled, custom) == [t |-> "resolver", enabled |-> enabled, custom |-> custom]

InitialDefaults ==
  [defaultService |-> Str("unknown-service"),
   defaultEnvironment |-> Str("development"),
   defaultEmojis |-> Bool(FALSE),
   defaultAdapters |-> Arr(<<Str("console")>>),
   defaultLevel |-> Str("INFO")]

\* String.prototype.trim on the texts of the model
Trim(v) ==
  CASE v.v = "   " -> Str("")
    [] v.v = " api " -> Str("api")
    [] OTHER -> v

\* config.k?.trim() ? config.k.trim() : undefined
TrimmedOrUndefined(v) ==
  IF Nullish(v) THEN Undefined
  ELSE IF Truthy(Trim(v)) THEN Trim(v) ELSE Undefined

\* LoggerFactory.resolveConfig
resolveConfig(config, defaults) ==
  [service |-> Coalesce(Coalesce(TrimmedOrUndefined(Get(Obj(config), "service")),
                                 Get(Obj(defaults), "defaultService")),
                        Str("unknown-service")),
   environment |-> Coalesce(Coalesce(TrimmedOrUndefined(Get(Obj(config), "environment")),
                                     Get(Obj(defaults), "defaultEnvironment")),
                            Str("development")),
   emojis |-> Coalesce(Coalesce(Get(Obj(config), "emojis"),
                                Get(Obj(defaults), "defaultEmojis")), Bool(FALSE)),
   adapters |-> Coalesce(Coalesce(Get(Obj(config), "adapters"),
                                  Get(Obj(defaults), "defaultAdapters")),
                         Arr(<<Str("console")>>)),
   level |-> Coalesce(Coalesce(Get(Obj(config), "level"),
                               Get(Obj(defaults), "defaultLevel")), Str("INFO")),
   context |-> Coalesce(Get(Obj(config), "context"), Obj(NoFields))]

\* EmojiResolver.getAllMappings: { ...DEFAULT_EMOJI_MAPPINGS, ...customMappings }
getAllMappings(custom) == Spread(DefaultEmojiMappings, custom)

\* LoggerFactory.createEmojiResolver
createEmojiResolver(resolved, global) ==
  IF Truthy(global) THEN Resolver(resolved.emojis, getAllMappings(global.custom))
  ELSE Resolver(resolved.emojis, NoMappings)

\* the file paths no FileAdapter can be constructed on (the directory cannot
\* be made or written)
UnwritablePaths == {"/proc/1/test.log"}

\* new FileAdapter({ filePath, ... }) throws
FileAdapterThrows(filePath) == ~Truthy(filePath) \/ filePath.v \in UnwritablePaths

NewConsoleAdapter(resolved) ==
  [kind |-> "console", enableEmojis |-> Coalesce(resolved.emojis, Bool(FALSE)),
   logLevel |-> Coalesce(resolved.level, Str("INFO"))]

NewFileAdapter(resolved, filePath) ==
  [kind |-> "file", filePath |-> filePath,
   enableEmojis |-> Coalesce(resolved.emojis, Bool(FALSE)),
   logLevel |-> Coalesce(resolved.level, Str("INFO"))]

\* the forEach of createAdapters: the adapters made, and the numbers of
\* console.warn and console.error calls
RECURSIVE AdaptersFrom(_, _, _)
AdaptersFrom(names, resolved, logFileEnv) ==
  IF names = <<>> THEN [adapters |-> <<>>, warnings |-> 0, errors |-> 0]
  ELSE LET name == names[Len(names)]
           before == AdaptersFrom(SubSeq(names, 1, Len(names) - 1), resolved, logFileEnv)
           filePath == Coalesce(logFileEnv, Str("./logs/app.log"))
       IN IF name = Str("console")
          THEN [before EXCEPT !.adapters = Append(@, NewConsoleAdapter(resolved))]
          ELSE IF name = Str("file")
            THEN IF FileAdapterThrows(filePath)
                 THEN [before EXCEPT !.errors = @ + 1]
                 ELSE [before EXCEPT !.adapters = Append(@, NewFileAdapter(resolved, filePath))]
          ELSE IF name = Str("localStorage")
            THEN before   \* no window object: nothing is done
          ELSE [before EXCEPT !.warnings = @ + 1]

\* LoggerFactory.createAdapters
\* variant: no console adapter is added when none was made
createAdaptersNoFallback(resolved, logFileEnv) ==
  AdaptersFrom(resolved.adapters.a, resolved, logFileEnv)

createAdapters(resolved, logFileEnv) ==
  LET made == AdaptersFrom(resolved.adapters.a, resolved, logFileEnv)
  IN IF Len(made.adapters) = 0
     THEN [made EXCEPT !.adapters = <<NewConsoleAdapter(resolved)>>]
     ELSE made

\* LoggerFactory.create: the Logger and the diagnostics of its construction
create(config, defaults, global, logFileEnv) ==
  LET resolved == resolveConfig(config, defaults)
      emojiResolver == createEmojiResolver(resolved, global)
      made == createAdapters(resolved, logFileEnv)
  IN [t |-> "logger", resolved |-> resolved, service |-> resolved.service, environment |-> resolved.environment,
      resolver |-> emojiResolver, adapters |-> made.adapters,
      base |-> resolved.context, warnings |-> made.warnings, errors |-> made.errors]

\* the configuration createBackendLogger passes to create
backendConfig(config) ==
  LET withAdapters ==
        Spread(config, [adapters |-> Coalesce(Get(Obj(config), "adapters"),
                                              Arr(<<Str("console"), Str("file")>>))])
  IN IF Truthy(Get(Obj(config), "logFile")) /\ ~Truthy(Get(Obj(withAdapters), "context"))
     THEN Spread(withAdapters, [context |-> Obj(NoFields)])
     ELSE withAdapters

\* LoggerFactory.reset: the new defaults and global resolver
\* variant: the global resolver is kept
resetDefaultsOnly(defaults, global) == [defaults |-> InitialDefaults, global |-> global]

reset(defaults, global) == [defaults |-> InitialDefaults, global |-> Undefined]

\* LoggerFactory.getDefaultConfig
getDefaultConfig == facDefaults

ConfigureInputs ==
  {[defaultService |-> Str("configured")],
   [defaultService |-> Undefined, defaultAdapters |-> Arr(<<Str("file")>>)],
   [defaultEmojis |-> Bool(TRUE)]}

CustomEventMaps ==
  {[CUSTOM_EVENT |-> "[star]"], [SYSTEM_START |-> "[gear]"]}

GlobalResolvers ==
  {Resolver(Bool(TRUE), NoMappings), Resolver(Bool(FALSE), [CUSTOM_EVENT |-> "[bell]"])}

LogFileEnvs == {Undefined, Str(""), Str("/var/log/env.log"), Str("/proc/1/test.log")}

AdapterLists ==
  {Arr(<<>>), Arr(<<Str("file")>>), Arr(<<Str("unknown")>>), Arr(<<Str("localStorage")>>),
   Arr(<<Str("unknown"), Str("file"), Str("console")>>)}

\* LoggerConfig objects (service is required by the type)
CreateConfigs ==
  {Spread(Spread([service |-> s], FieldIf(a # Undefined, "adapters", a)),
          FieldIf(e # Undefined, "emojis", e)) :
     s \in {Str(" api "), Str("   ")},
     a \in {Undefined} \cup AdapterLists,
     e \in {Undefined, Bool(TRUE)}}

\* the arguments of createBackendLogger
BackendConfigs ==
  {Spread(Spread(Spread([service |-> Str("backend")],
                        FieldIf(a # Undefined, "adapters", a)),
                 FieldIf(p # Undefined, "logFile", p)),
          FieldIf(c # Undefined, "context", c)) :
     a \in {Undefined, Arr(<<Str("file")>>), Arr(<<Str("console")>>)},
     p \in {Undefined, Str("/tmp/test.log")},
     c \in {Undefined, Obj([userId |-> Str("u0")])}}

NoFactoryCall == [op |-> "none", config |-> Undefined, logger |-> Undefined]

InitFactory ==
  /\ facDefaults = InitialDefaults
  /\ facGlobal = Undefined
  /\ facLogFileEnv \in LogFileEnvs
  /\ facStale = {}
  /\ facAfterReset = FALSE
  /\ facLast = NoFactoryCall

\* LoggerFactory.configure(config)
Configure(config) ==
  /\ facDefaults' = Spread(facDefaults, config)
  /\ facAfterReset' = FALSE
  /\ facLast' = [op |-> "configure", config |-> Obj(config), logger |-> Undefined]
  /\ UNCHANGED <<facGlobal, facLogFileEnv, facStale>>
  /\ UNCHANGED nonFactoryVars

\* LoggerFactory.setGlobalEmojiResolver(resolver)
SetGlobalEmojiResolver(resolver) ==
  /\ facGlobal' = resolver
  /\ facStale' = facStale \ DOMAIN resolver.custom
  /\ facLast' = [op |-> "setGlobalEmojiResolver", config |-> resolver, logger |-> Undefined]
  /\ UNCHANGED <<facDefaults, facLogFileEnv, facAfterReset>>
  /\ UNCHANGED nonFactoryVars

\* LoggerFactory.addCustomEvents(customMappings)
AddCustomEvents(customMappings) ==
  /\ facGlobal' =
       LET resolver == IF Nullish(facGlobal) THEN Resolver(Bool(FALSE), NoMappings)
                       ELSE facGlobal
       IN [resolver EXCEPT !.custom = Spread(@, customMappings)]
  /\ facStale' = facStale \ DOMAIN customMappings
  /\ facLast' = [op |-> "addCustomEvents", config |-> Undefined, logger |-> Undefined]
  /\ UNCHANGED <<facDefaults, facLogFileEnv, facAfterReset>>
  /\ UNCHANGED nonFactoryVars

\* LoggerFactory.reset()
Reset ==
  /\ facDefaults' = reset(facDefaults, facGlobal).defaults
  /\ facGlobal' = reset(facDefaults, facGlobal).global
  /\ facStale' = facStale \cup (IF Nullish(facGlobal) THEN {} ELSE DOMAIN facGlobal.custom)
  /\ facAfterReset' = TRUE
  /\ facLast' = [op |-> "reset", config |-> Undefined, logger |-> Undefined]
  /\ UNCHANGED facLogFileEnv
  /\ UNCHANGED nonFactoryVars

\* LoggerFactory.create(config)
Create(config) ==
  /\ facLast' = [op |-> "create", config |-> Obj(config),
                 logger |-> create(config, facDefaults, facGlobal, facLogFileEnv)]
  /\ UNCHANGED <<facDefaults, facGlobal, facLogFileEnv, facStale, facAfterReset>>
  /\ UNCHANGED nonFactoryVars

\* LoggerFactory.createBackendLogger(config)
CreateBackendLogger(config) ==
  /\ facLast' = [op |-> "createBackendLogger", config |-> Obj(config),
                 logger |-> create(backendConfig(config), facDefaults, facGlobal,
                                   facLogFileEnv)]
  /\ UNCHANGED <<facDefaults, facGlobal, facLogFileEnv, facStale, facAfterReset>>
  /\ UNCHANGED nonFactoryVars

FactoryStep ==
  \/ \E config \in ConfigureInputs : Configure(config)
  \/ \E resolver \in GlobalResolvers : SetGlobalEmojiResolver(resolver)
  \/ \E customMappings \in CustomEventMaps : AddCustomEvents(customMappings)
  \/ Reset
  \/ \E config \in CreateConfigs : Create(config)
  \/ \E config \in BackendConfigs : CreateBackendLogger(config)

NoFactory ==
  /\ facDefaults = InitialDefaults
  /\ facGlobal = Undefined
  /\ facLogFileEnv = Undefined
  /\ facStale = {}
  /\ facAfterReset = FALSE
  /\ facLast = NoFactoryCall

-----------------------------------------------------------------------------
(* Logger.flush and Logger.close (logger.ts) over adapters whose flush() and *)
(* close() are undefined ("absent") or return a promise that fulfils        *)
(* ("resolves") or rejects ("rejects").                                      *)
PromiseKinds == {"absent", "resolves", "rejects"}

\* adapters.filter(a => a.m !== undefined): the indexes kept, in order
WithMethod(ads, m) == SelectSeq([i \in 1..Len(ads) |-> i], LAMBDA i : ads[i][m] # "absent")

\* Promise.all(promises) rejects when one of the promises rejects
AllRejects(ads, m, invoked) == \E k \in DOMAIN invoked : ads[invoked[k]][m] = "rejects"

InitClose ==
  /\ clAdapters \in [1..NumAdapters -> [flush : PromiseKinds, close : PromiseKinds]]
  /\ clFlushed = <<>>
  /\ clClosed = <<>>
  /\ clOp = "none"
  /\ clPc = "idle"

\* Logger.flush() up to its await; Logger.close() up to its await of this.flush()
FlushStart(op) ==
  /\ clPc = "idle"
  /\ clOp' = op
  /\ clFlushed' = WithMethod(clAdapters, "flush")
  /\ clPc' = "awaitFlush"
  /\ UNCHANGED <<clAdapters, clClosed>>
  /\ UNCHANGED nonCloseVars

\* the promise of Promise.all(flushPromises) settles: flush() is settled; the
\* close() that awaited it rejects with it, or goes on to invoke the close()
\* of the adapters that define it, up to its await
FlushSettles ==
  /\ clPc = "awaitFlush"
  /\ IF AllRejects(clAdapters, "flush", clFlushed)
     THEN clPc' = "rejected" /\ clClosed' = clClosed
     ELSE IF clOp = "flush"
       THEN clPc' = "resolved" /\ clClosed' = clClosed
     ELSE clPc' = "awaitClose" /\ clClosed' = WithMethod(clAdapters, "close")
  /\ UNCHANGED <<clAdapters, clFlushed, clOp>>
  /\ UNCHANGED nonCloseVars

\* the promise of Promise.all(closePromises) settles
CloseSettles ==
  /\ clPc = "awaitClose"
  /\ clPc' = IF AllRejects(clAdapters, "close", clClosed) THEN "rejected" ELSE "resolved"
  /\ UNCHANGED <<clAdapters, clFlushed, clClosed, clOp>>
  /\ UNCHANGED nonCloseVars

CloseStep ==
  \/ \E op \in {"flush", "close"} : FlushStart(op)
  \/ FlushSettles
  \/ CloseSettles

NoClose ==
  /\ clAdapters = <<>>
  /\ clFlushed = <<>>
  /\ clClosed = <<>>
  /\ clOp = "none"
  /\ clPc = "idle"

-----------------------------------------------------------------------------
(* The specifications *)

\* Logger over NumAdapters adapters of every behaviour
Init == InitLoggerWith([1..NumAdapters -> AdapterKinds]) /\ NoAdapter /\ NoFile /\ NoContext /\ NoHeader /\ NoFamily /\ NoEmoji /\ NoFactory /\ NoClose /\ NoWith
Next ==
  \/ \E c \in DispatchCalls : Log(c[1], c[2], c[3])
  \/ LoggerStep
Spec == Init /\ [][Next]_vars

\* Logger over one recording adapter, over every shape of data
InitEntry == InitLoggerWith({<<"sync">>, <<"rejects">>}) /\ NoAdapter /\ NoFile /\ NoContext /\ NoHeader /\ NoFamily /\ NoEmoji /\ NoFactory /\ NoClose /\ NoWith
NextEntry ==
  \/ \E c \in EntryCalls : Log(c[1], c[2], c[3])
  \/ LoggerStep
SpecEntry == InitEntry /\ [][NextEntry]_vars

\* Logger over one adapter, with contexts set at every layer
InitMerge == InitLoggerWith({<<"sync">>}) /\ NoAdapter /\ NoFile /\ NoContext /\ NoHeader /\ NoFamily /\ NoEmoji /\ NoFactory /\ NoClose /\ NoWith
NextMerge ==
  \/ \E c \in MergeCalls : Log(c[1], c[2], c[3])
  \/ \E partial \in MergeSetInputs : SetContext(partial)
  \/ CallerContinues
SpecMerge == InitMerge /\ [][NextMerge]_vars

\* one ConsoleAdapter or FileAdapter
InitAdapters == InitAdapter /\ NoLogger /\ NoFile /\ NoContext /\ NoHeader /\ NoFamily /\ NoEmoji /\ NoFactory /\ NoClose /\ NoWith
NextAdapters == AdapterStep
SpecAdapters == InitAdapters /\ [][NextAdapters]_vars

\* one FileAdapter with its streams and directory
InitFiles == InitFile /\ NoLogger /\ NoAdapter /\ NoContext /\ NoHeader /\ NoFamily /\ NoEmoji /\ NoFactory /\ NoClose /\ NoWith
NextFile == FileStep
SpecFile == InitFiles /\ [][NextFile]_vars

\* one FileAdapter shared by several Loggers, constructed with rotateOnSize
\* outside a test environment (the timer runs)
InitShared == InitFiles /\ fTimer /\ fOpts.rotateOnSize
NextShared == SharedFileStep
SpecShared == InitShared /\ [][NextShared]_vars

\* one FileAdapter that is written to and flushed and never closed, in a
\* directory where fs.renameSync of the log file may throw
InitFaulty ==
  /\ InitFileOn([test : BOOLEAN, renameThrows : BOOLEAN], FileOptionInputs,
                {EmptyDirectory, OneLineDirectory})
  /\ NoLogger /\ NoAdapter /\ NoContext /\ NoHeader /\ NoFamily /\ NoEmoji /\ NoFactory /\ NoClose /\ NoWith
NextFaulty ==
  \/ FileWrite("a")
  \/ FlushCall("flush")
  \/ TimerTick
  \/ Tick
  \/ \E s \in DOMAIN streams : StreamOpen(s)
  \/ \E s \in DOMAIN streams : StreamWriteChunk(s)
  \/ \E s \in DOMAIN streams : StreamFinish(s)
SpecFaulty == InitFaulty /\ [][NextFaulty]_vars

\* one FileAdapter constructed in a test environment, on which write,
\* updateOptions, flush and close are called
InitTestEnv ==
  /\ InitFileOn({[test |-> TRUE, renameThrows |-> FALSE]}, FileOptionInputs,
                {EmptyDirectory, OneLineDirectory})
  /\ NoLogger /\ NoAdapter /\ NoContext /\ NoHeader /\ NoFamily /\ NoEmoji /\ NoFactory /\ NoClose /\ NoWith
NextTestEnv ==
  \/ FileWrite("a")
  \/ \E partial \in FileUpdateInputs : FileAdapterUpdateOptions(partial)
  \/ FlushCall("flush")
  \/ CloseCall
  \/ StreamStep
SpecTestEnv == InitTestEnv /\ [][NextTestEnv]_vars

\* one FileAdapter that rotates at every line, constructed outside a test
\* environment in a directory that holds backups of earlier runs, and written
\* to
InitRotation ==
  /\ InitFileOn({[test |-> FALSE, renameThrows |-> FALSE]}, RotationOptionInputs,
                RotationDirectories)
  /\ NoLogger /\ NoAdapter /\ NoContext /\ NoHeader /\ NoFamily /\ NoEmoji /\ NoFactory /\ NoClose /\ NoWith
NextRotation ==
  \/ FileWrite("a")
  \/ Tick
  \/ \E s \in DOMAIN streams : StreamOpen(s)
  \/ \E s \in DOMAIN streams : StreamWriteChunk(s)
  \/ \E s \in DOMAIN streams : StreamFinish(s)
SpecRotation == InitRotation /\ [][NextRotation]_vars

\* one FileAdapter with or without rotateDaily, constructed in a directory
\* whose log file may be of yesterday, and written to
InitDaily ==
  /\ InitFileOn({[test |-> FALSE, renameThrows |-> FALSE]}, DailyOptionInputs, DailyDirectories)
  /\ NoLogger /\ NoAdapter /\ NoContext /\ NoHeader /\ NoFamily /\ NoEmoji /\ NoFactory /\ NoClose /\ NoWith
NextDaily ==
  \/ FileWrite("a")
  \/ TimerTick
  \/ Tick
  \/ \E s \in DOMAIN streams : StreamOpen(s)
  \/ \E s \in DOMAIN streams : StreamWriteChunk(s)
  \/ \E s \in DOMAIN streams : StreamFinish(s)
SpecDaily == InitDaily /\ [][NextDaily]_vars

\* one ContextManager
InitContexts == InitContext /\ NoLogger /\ NoAdapter /\ NoFile /\ NoHeader /\ NoFamily /\ NoEmoji /\ NoFactory /\ NoClose /\ NoWith
NextContext == ContextStep
SpecContext == InitContexts /\ [][NextContext]_vars

\* contexts sent through headers
InitHeaders == InitHeader /\ NoLogger /\ NoAdapter /\ NoFile /\ NoContext /\ NoFamily /\ NoEmoji /\ NoFactory /\ NoClose /\ NoWith
NextHeaders == HeaderStep
SpecHeaders == InitHeaders /\ [][NextHeaders]_vars

\* a Logger and its child
InitFamilies == InitFamily /\ NoLogger /\ NoAdapter /\ NoFile /\ NoContext /\ NoHeader /\ NoEmoji /\ NoFactory /\ NoClose /\ NoWith
NextFamily == FamilyStep
SpecFamily == InitFamilies /\ [][NextFamily]_vars

\* getEmoji calls
InitEmojis == InitEmoji /\ NoLogger /\ NoAdapter /\ NoFile /\ NoContext /\ NoHeader /\ NoFamily /\ NoFactory /\ NoClose /\ NoWith
NextEmoji == EmojiStep
SpecEmoji == InitEmojis /\ [][NextEmoji]_vars

\* Logger.flush() and Logger.close() over adapters of every behaviour
InitCloses == InitClose /\ NoLogger /\ NoAdapter /\ NoFile /\ NoContext /\ NoHeader /\ NoFamily /\ NoEmoji /\ NoFactory /\ NoWith
NextClose == CloseStep
SpecClose == InitCloses /\ [][NextClose]_vars

\* concurrent withContext calls on one ContextManager
InitWiths == InitWith /\ NoLogger /\ NoAdapter /\ NoFile /\ NoHeader /\ NoFamily /\ NoEmoji /\ NoFactory /\ NoClose
NextWith == WithStep
SpecWith == InitWiths /\ [][NextWith]_vars

\* the LoggerFactory statics over any sequence of calls
InitFactories == InitFactory /\ NoLogger /\ NoAdapter /\ NoFile /\ NoContext /\ NoHeader /\ NoFamily /\ NoEmoji /\ NoClose /\ NoWith
NextFactory == FactoryStep
SpecFactory == InitFactories /\ [][NextFactory]_vars

\* the event loop runs every stream event, promise continuation and timer
\* callback that is ready; the caller's write(), flush() and close() and the
\* passing of time are not forced
FairSpecFile == SpecFile /\ WF_vars(StreamStep)

-----------------------------------------------------------------------------
(* Properties of the Logger *)

\* C1: whatever the adapters do (write() throws, or returns a promise that
\* rejects), log() returns normally, every adapter of the list has been handed
\* the entry, and no rejection is left without a handler.
AdapterFailuresIsolated ==
  /\ \A i \in DOMAIN adapters : Len(received[i]) = calls
  /\ unhandled = 0
  /\ lastCall.outcome # "none" =>
       /\ lastCall.outcome = "returned"
       /\ \A i \in DOMAIN adapters : received[i][calls] = lastCall.entry["logId"]

\* a call was made on a logger whose first adapter throws and whose other
\* adapter rejects, and the rejection has been reported
WitnessAdapterFailuresIsolated ==
  /\ lastCall.outcome = "returned"
  /\ adapters[1] = "throws"
  /\ adapters[NumAdapters] = "rejects"
  /\ Len(received[NumAdapters]) = calls
  /\ rejections = 0
  /\ diagnostics = 2 * calls

\* C12: each adapter has received the entries of the log() calls in the order
\* of the calls, and when log() returns its entry has been passed to every
\* adapter, in registration order.
DispatchedInOrder ==
  /\ \A i \in DOMAIN adapters : received[i] = [k \in 1..calls |-> generateLogId(k)]
  /\ lastCall.outcome # "none" =>
       lastCall.invoked = [i \in 1..Len(adapters) |-> i]

\* the last of several calls has returned on a logger with several adapters,
\* one of which throws
WitnessDispatchedInOrder ==
  /\ calls = MaxLogs
  /\ lastCall.outcome = "returned"
  /\ Len(lastCall.invoked) = NumAdapters
  /\ adapters[1] = "throws"
  /\ received[NumAdapters] = [k \in 1..MaxLogs |-> generateLogId(k)]

\* C2: whichever fields of data are null, undefined or missing, the dispatched
\* entry has non-null logId, timestamp, service and environment, the message of
\* the call and the level of the method called.
RequiredEntryFields == {"logId", "timestamp", "level", "message", "service", "environment"}

NullableFieldsDefaulted ==
  lastCall.outcome # "none" =>
    LET e == lastCall.entry
    IN /\ \A k \in RequiredEntryFields \ {"message"} :
            k \in DOMAIN e /\ ~Nullish(e[k])
       /\ e["service"] = service
       /\ e["environment"] = environment
       /\ e["message"] = lastCall.message
       /\ e["level"] = Str(lastCall.level)

\* warn() was called with every nullable field of data set to null
WitnessNullableFieldsDefaulted ==
  /\ lastCall.outcome = "returned"
  /\ lastCall.level = "WARN"
  /\ lastCall.data = NullableData(NullableFields, "null")
  /\ lastCall.entry["level"] = Str("WARN")

\* C3: the context of every dispatched entry has a correlation ID: the one the
\* last of base context, current context and data.context that sets the field
\* gives it, unless that value is null or undefined or no layer sets it, and
\* then one generated for this call.
CorrelationLayers(c) == <<c.base, c.current, FieldsOf(Get(c.data, "context"))>>

LastLayerWithCorrelationId(c) ==
  LET ls == CorrelationLayers(c)
      has == {i \in 1..3 : "correlationId" \in DOMAIN ls[i]}
  IN IF has = {} THEN 0 ELSE CHOOSE i \in has : \A j \in has : j <= i

SuppliedCorrelationIds(c) ==
  {CorrelationLayers(c)[i]["correlationId"] :
     i \in {j \in 1..3 : "correlationId" \in DOMAIN CorrelationLayers(c)[j]}}

EntryHasCorrelationId ==
  lastCall.outcome # "none" =>
    LET ctx == lastCall.entry["context"]
        top == LastLayerWithCorrelationId(lastCall)
        merged == IF top = 0 THEN Undefined
                  ELSE CorrelationLayers(lastCall)[top]["correlationId"]
    IN /\ ctx.t = "object"
       /\ "correlationId" \in DOMAIN ctx.f
       /\ ctx.f["correlationId"].t = "string"
       /\ ~Nullish(merged) => ctx.f["correlationId"] = merged
       /\ Nullish(merged) =>
            /\ ctx.f["correlationId"] = createCorrelationId(calls)
            /\ ctx.f["correlationId"] \notin SuppliedCorrelationIds(lastCall)

\* the base context has a correlation ID and data.context sets it to undefined:
\* the entry carries a generated one
WitnessEntryHasCorrelationId ==
  /\ lastCall.outcome = "returned"
  /\ "correlationId" \in DOMAIN lastCall.base
  /\ lastCall.data = Obj([context |-> Obj([correlationId |-> Undefined])])
  /\ lastCall.entry["context"].f["correlationId"] = createCorrelationId(calls)

\* C25: the context of a dispatched entry has, for every field that the base
\* context, the current context or data.context defines, the value of the
\* latest of these layers that defines it (a correlation ID that is null or
\* undefined there is replaced by a generated one), and no other field but the
\* correlation ID
LatestLayerWith(c, k) ==
  LET has == {i \in 1..3 : k \in DOMAIN CorrelationLayers(c)[i]}
  IN CHOOSE i \in has : \A j \in has : j <= i

LayerFields(c) == UNION {DOMAIN CorrelationLayers(c)[i] : i \in 1..3}

ContextIsLayeredMerge ==
  lastCall.outcome # "none" =>
    LET ctx == lastCall.entry["context"].f
    IN /\ DOMAIN ctx = LayerFields(lastCall) \cup {"correlationId"}
       /\ \A k \in LayerFields(lastCall) :
            LET v == CorrelationLayers(lastCall)[LatestLayerWith(lastCall, k)][k]
            IN IF k = "correlationId" /\ Nullish(v)
               THEN ctx[k] = createCorrelationId(calls)
               ELSE ctx[k] = v

\* userId is defined by the three layers with three values, and the entry
\* carries the one of data.context
WitnessContextIsLayeredMerge ==
  /\ lastCall.outcome = "returned"
  /\ Get(Obj(lastCall.base), "userId") = Str("u0")
  /\ Get(Obj(lastCall.current), "userId") = Str("u-cur")
  /\ Get(Get(lastCall.data, "context"), "userId") = Str("u2")
  /\ "sessionId" \in DOMAIN lastCall.current
  /\ lastCall.entry["context"].f["userId"] = Str("u2")
  /\ lastCall.entry["context"].f["sessionId"] = Str("s-cur")

ClaimedOptionalFields(v) ==
  {k \in {"stackTrace", "code"} : k \in DOMAIN v.f /\ v.f[k].t = "string"}
  \cup {k \in {"context"} : k \in DOMAIN v.f /\ v.f[k].t = "object"}

ClaimedError(v) ==
  CASE v.t = "error" ->
         Obj([type |-> Str(v.ctor), message |-> Str(v.message), stackTrace |-> Str(v.stack)])
    [] v.t = "string" -> Obj([type |-> Str("Unknown"), message |-> v])
    [] v.t = "object" ->
         IF /\ "type" \in DOMAIN v.f /\ v.f["type"].t = "string"
            /\ "message" \in DOMAIN v.f /\ v.f["message"].t = "string"
         THEN Obj([k \in {"type", "message"} \cup ClaimedOptionalFields(v) |-> v.f[k]])
         ELSE Undefined
    [] OTHER -> Undefined

ErrorSanitizedAsClaimed ==
  (lastCall.outcome # "none" /\ lastCall.data.t = "object" /\ "error" \in DOMAIN lastCall.data.f) =>
    LET want == ClaimedError(lastCall.data.f["error"])
    IN /\ lastCall.outcome = "returned"
       /\ IF want = Undefined
          THEN "error" \notin DOMAIN lastCall.entry
          ELSE "error" \in DOMAIN lastCall.entry /\ lastCall.entry["error"] = want

\* the same for every error value but the empty string
ErrorSanitizedUnlessEmptyString ==
  (lastCall.outcome # "none" /\ lastCall.data.t = "object" /\ "error" \in DOMAIN lastCall.data.f
     /\ lastCall.data.f["error"] # Str("")) =>
    LET want == ClaimedError(lastCall.data.f["error"])
    IN /\ lastCall.outcome = "returned"
       /\ IF want = Undefined
          THEN "error" \notin DOMAIN lastCall.entry
          ELSE "error" \in DOMAIN lastCall.entry /\ lastCall.entry["error"] = want

-----------------------------------------------------------------------------
(* Properties of the adapters *)

\* the total order TRACE < DEBUG < INFO < WARN < ERROR < FATAL
LevelSequence == <<"TRACE", "DEBUG", "INFO", "WARN", "ERROR", "FATAL">>
Rank(l) == CHOOSE i \in 1..6 : LevelSequence[i] = l

\* the level of an entry, INFO when it is null or undefined
DefaultedLevel(entry) ==
  IF entry.f["level"] \in {Null, Undefined} THEN "INFO" ELSE entry.f["level"].v

\* the message the latest write() put out
OutMessage == IF aKind = "console" THEN lastWrite.out.message ELSE lastWrite.out["message"].v

\* C5: a ConsoleAdapter or FileAdapter whose minimum level is m puts an entry
\* out (a console call, a line pushed on the file buffer) if and only if
\* rank(entry.level, INFO when null or undefined) >= rank(m); the two classes
\* decide by the same rule.
LevelFilterIsRankOrder ==
  (lastWrite.emitted # "none" /\ aOptions["logLevel"].t = "string") =>
    /\ (lastWrite.emitted = "yes") <=>
         (Rank(DefaultedLevel(lastWrite.entry)) >= Rank(aOptions["logLevel"].v))
    /\ lastWrite.emitted = "yes" =>
         lastWrite.method = (IF aKind = "file" THEN "buffer"
                             ELSE CASE DefaultedLevel(lastWrite.entry) \in {"TRACE", "DEBUG"} -> "debug"
                                    [] DefaultedLevel(lastWrite.entry) = "INFO" -> "info"
                                    [] DefaultedLevel(lastWrite.entry) = "WARN" -> "warn"
                                    [] OTHER -> "error")

\* a FileAdapter at minimum level INFO has buffered an entry whose level is null
WitnessLevelFilterIsRankOrder ==
  /\ aKind = "file"
  /\ aOptions["logLevel"] = Str("INFO")
  /\ lastWrite.emitted = "yes"
  /\ lastWrite.entry.f["level"] = Null
  /\ lastWrite.out["level"] = Str("INFO")

\* the event has an emoji mapping: a custom one, or one of the default table
EventHasMapping(event) ==
  event.t = "string" /\ (event.v \in DOMAIN aCustom \/ event.v \in DOMAIN DefaultEmojiMappings)

MappedEmoji(event) ==
  IF event.v \in DOMAIN aCustom THEN aCustom[event.v] ELSE DefaultEmojiMappings[event.v]

\* C6: with enableEmojis=false on the adapter, an entry with includeEmoji=true
\* and an event that has an emoji mapping is put out with a message prefixed
\* with that emoji.
EntryFlagForcesEmoji ==
  (/\ lastWrite.emitted = "yes"
   /\ aOptions["enableEmojis"] = Bool(FALSE)
   /\ lastWrite.entry.f["includeEmoji"] = Bool(TRUE)
   /\ EventHasMapping(lastWrite.entry.f["event"])) =>
     OutMessage = MappedEmoji(lastWrite.entry.f["event"]) \o " " \o lastWrite.entry.f["message"].v

\* C7: an entry with includeEmoji=false is put out without an emoji prefix even
\* when the adapter has enableEmojis=true, and an entry whose includeEmoji is
\* null or absent is prefixed exactly when the adapter's enableEmojis is true
\* and its resolver resolves the entry's event to an emoji (the resolver is
\* enabled and the event has a mapping).
EntryFlagSuppressesEmoji ==
  (lastWrite.emitted = "yes" /\ lastWrite.entry.f["message"].t = "string") =>
    LET e == lastWrite.entry.f
        plain == e["message"].v
        prefixed == MappedEmoji(e["event"]) \o " " \o plain
        resolves == aResolverEnabled /\ EventHasMapping(e["event"])
    IN /\ e["includeEmoji"] = Bool(FALSE) => OutMessage = plain
       /\ e["includeEmoji"] \in {Null, Undefined} =>
            OutMessage = (IF aOptions["enableEmojis"] = Bool(TRUE) /\ resolves
                          THEN prefixed ELSE plain)

\* an adapter with enableEmojis=true and an enabled resolver has put out an
\* entry with includeEmoji=false and a mapped event, without the emoji
WitnessEntryFlagSuppressesEmoji ==
  /\ lastWrite.emitted = "yes"
  /\ aOptions["enableEmojis"] = Bool(TRUE)
  /\ aResolverEnabled
  /\ lastWrite.entry.f["includeEmoji"] = Bool(FALSE)
  /\ lastWrite.entry.f["event"] = Str("SYSTEM_START")
  /\ OutMessage = "Test message"

\* an adapter with enableEmojis=true has put out an entry whose includeEmoji is
\* null with the emoji of its event
WitnessAdapterSettingUsed ==
  /\ lastWrite.emitted = "yes"
  /\ aOptions["enableEmojis"] = Bool(TRUE)
  /\ lastWrite.entry.f["includeEmoji"] = Null
  /\ OutMessage = "[rocket] Test message"


\* C27: FileAdapter.updateOptions(partial) leaves every one of enableEmojis,
\* logLevel, bufferSize and flushInterval that partial does not supply as it was
UpdateOptionsKeepsTheRest ==
  [][\A partial \in UpdateInputs :
       FileUpdateOptions(partial) =>
         \A k \in UpdatableOptions \ DOMAIN partial : aOptions'[k] = aOptions[k]]_vars

\* what the code does: the supplied options get their values and the others
\* become undefined
UpdateOptionsResetsTheRest ==
  [][\A partial \in UpdateInputs :
       FileUpdateOptions(partial) =>
         /\ \A k \in DOMAIN partial : aOptions'[k] = partial[k]
         /\ \A k \in UpdatableOptions \ DOMAIN partial : aOptions'[k] = Undefined]_vars

-----------------------------------------------------------------------------
(* Properties of the FileAdapter *)

CallIds == 1..MaxCalls

CloseCalled(c) == c \in DOMAIN fCalls /\ fCalls[c].kind = "close"
FlushCalled(c) == c \in DOMAIN fCalls /\ fCalls[c].kind \in {"flush", "loggerFlush"}
CallAt(c, pcs) == c \in DOMAIN fCalls /\ fCalls[c].pc \in pcs

\* C8: after FileAdapter.close() is called, the promise it returned
\* eventually resolves (the timer stopped, the buffer written, the stream
\* ended by then).
CloseEventuallyResolves ==
  \A c \in CallIds : CloseCalled(c) ~> CallAt(c, {"resolved"})

\* C9: an awaited FileAdapter.flush(), and an awaited Logger.flush() on a
\* logger with a FileAdapter, eventually completes (resolves or rejects).
FlushEventuallyCompletes ==
  \A c \in CallIds : FlushCalled(c) ~> CallAt(c, {"resolved", "rejected"})

\* the number of rotateFile() calls made before a line was passed to its
\* stream; line 0 is of an earlier run
RotationOf(l) ==
  IF l = 0 THEN 0
  ELSE handed[CHOOSE i \in DOMAIN handed : handed[i].line = l].rotation

LinesOf(i) == {inodes[i].content[k] : k \in DOMAIN inodes[i].content}

\* C10: with rotateOnSize, a flush that brings the tracked size to
\* maxFileSize rotates: the size counter is reset to 0, the file at the
\* original path holds only lines written after the latest rotation, and a
\* backup holds only lines written before the rotation that made it.
RotationSeparatesFiles ==
  /\ fOpts.rotateOnSize => fSize < fOpts.maxFileSize
  /\ \A r \in DOMAIN rotLog : rotLog[r].size = 0
  /\ pathInode # 0 =>
       \A l \in LinesOf(pathInode) : RotationOf(l) = Len(rotLog)
  /\ \A n \in DOMAIN backups :
       \A l \in LinesOf(backups[n]) : RotationOf(l) < Len(rotLog)

\* the same, for rotations that end a stream which has opened its file
RotationSeparatesOpenedFiles ==
  (\A r \in DOMAIN rotLog : rotLog[r].opened) => RotationSeparatesFiles

HandedLines == [i \in 1..Len(handed) |-> handed[i].line]

\* C11: for any interleaving of write() calls of several Loggers sharing one
\* FileAdapter with timer ticks, flushes and rotations, every accepted entry
\* is passed to a write stream exactly once and in the order of acceptance:
\* the lines passed so far followed by the buffer are the accepted entries in
\* order, and no stream refuses a line while close() has not been called.
HandedOnceInOrder ==
  /\ HandedLines \o fBuffer = [i \in 1..accepted |-> i]
  /\ (\A c \in DOMAIN fCalls : ~CloseCalled(c)) => lost = <<>>

WitnessHandedOnceInOrder ==
  /\ accepted = MaxWrites
  /\ Len(handed) = accepted
  /\ {writers[i] : i \in DOMAIN writers} = Loggers
  /\ Len(rotLog) >= 1
  /\ \E c \in DOMAIN fCalls : FlushCalled(c)

-----------------------------------------------------------------------------
(* Properties of the ContextManager *)

\* C13: pushContext / popContext is a stack. A popContext restores (and
\* returns) exactly the context, correlation ID included, that was current
\* immediately before the matching pushContext; on an empty stack it returns
\* undefined and leaves the current context unchanged.
PushPopIsStack ==
  cmLast.op = "pop" =>
    IF cmLast.before = <<>>
    THEN cmLast.returned = Undefined /\ cmCurrent = cmLast.current
    ELSE /\ cmCurrent = cmLast.before[Len(cmLast.before)]
         /\ cmLast.returned = Obj(cmLast.before[Len(cmLast.before)])

\* a nested popContext has brought back a context with a correlation ID that
\* differs from the one it replaced
WitnessPushPopIsStack ==
  /\ cmLast.op = "pop"
  /\ Len(cmLast.before) = MaxDepth
  /\ "correlationId" \in DOMAIN cmCurrent
  /\ "correlationId" \in DOMAIN cmLast.current
  /\ cmCurrent["correlationId"] # cmLast.current["correlationId"]

HeaderFieldSet == {HeaderFields[i] : i \in DOMAIN HeaderFields}

\* a context with only valid-format identifiers: sanitizeContext keeps every
\* header field the context has
OnlyValidIdentifiers(context) ==
  \A k \in HeaderFieldSet \cap DOMAIN context : k \in DOMAIN sanitizeContext(context)

\* C14: for a context with only valid-format identifiers,
\* extractFromHeaders(toHeaders(ctx)) has the same correlationId, traceId,
\* spanId, userId, sessionId and requestId as ctx where ctx has them, and none
\* of those ctx lacks.
HeadersRoundTrip ==
  (hExtracted # Undefined /\ OnlyValidIdentifiers(hContext)) =>
    \A k \in HeaderFieldSet :
      IF k \in DOMAIN hContext
      THEN k \in DOMAIN hExtracted.f /\ hExtracted.f[k] = hContext[k]
      ELSE k \notin DOMAIN hExtracted.f

\* a context with all six identifiers and a field that does not travel has
\* made the round trip
WitnessHeadersRoundTrip ==
  /\ hExtracted # Undefined
  /\ OnlyValidIdentifiers(hContext)
  /\ HeaderFieldSet \subseteq DOMAIN hContext
  /\ "operation" \in DOMAIN hContext

-----------------------------------------------------------------------------
(* Properties of Logger.child *)

\* what a Logger reports through getService, getEnvironment, getContext and
\* isEmojisEnabled, and the entry its next log() would pass to its adapters
Reports(l) ==
  [service |-> famLoggers[l].service,
   environment |-> famLoggers[l].environment,
   context |-> getContext(famLoggers[l].current),
   emojis |-> famResolvers[famLoggers[l].resolver],
   next |-> FamEntry(l, 0)]

ReportsButEmojis(l) ==
  [service |-> famLoggers[l].service,
   environment |-> famLoggers[l].environment,
   context |-> getContext(famLoggers[l].current),
   next |-> [FamEntry(l, 0) EXCEPT !["includeEmoji"] = Undefined]]

\* child(context) returns a Logger with the parent's service, environment and
\* adapters and the parent's base context overridden by context
ChildMade(context) ==
  /\ "child" \notin DOMAIN famLoggers
  /\ "child" \in DOMAIN famLoggers'
  /\ famLoggers'["child"].base = Spread(famLoggers["parent"].base, context)

ChildAsParent ==
  /\ famLoggers'["child"].service = famLoggers["parent"].service
  /\ famLoggers'["child"].environment = famLoggers["parent"].environment
  /\ famLoggers'["child"].adapters = famLoggers["parent"].adapters

\* C15: child(context) returns a Logger with the parent's service,
\* environment and adapter list and the parent's base context overridden by
\* context, and no operation called on one of the two (setContext,
\* setEmojisEnabled, log) changes what the other reports or emits.
ChildSharesOnlyAdapters ==
  [][/\ ("child" \notin DOMAIN famLoggers /\ "child" \in DOMAIN famLoggers') =>
          (ChildAsParent /\ \E context \in ChildContexts : ChildMade(context))
     /\ \A l \in DOMAIN famLoggers : famActor' # l => Reports(l)' = Reports(l)]_vars

\* the same, the emoji setting left aside
ChildSharesAdaptersAndResolver ==
  [][/\ ("child" \notin DOMAIN famLoggers /\ "child" \in DOMAIN famLoggers') =>
          (ChildAsParent /\ \E context \in ChildContexts : ChildMade(context))
     /\ \A l \in DOMAIN famLoggers :
          famActor' # l => ReportsButEmojis(l)' = ReportsButEmojis(l)]_vars

-----------------------------------------------------------------------------
(* Properties of the EmojiResolver *)

ClaimedEmoji(a) ==
  IF ~a.enabled THEN Str("")
  ELSE IF Typeof(a.event) = "string" /\ a.event.v \in DOMAIN a.custom
    THEN Str(a.custom[a.event.v])
  ELSE IF Typeof(a.event) = "string" /\ a.event.v \in DOMAIN DefaultEmojiMappings
    THEN Str(DefaultEmojiMappings[a.event.v])
  ELSE IF ~Nullish(a.fallback) THEN a.fallback
  ELSE Str("")

\* C17: getEmoji(event, fallback) returns "" when the resolver is disabled;
\* otherwise the emoji of the event's custom mapping, else the emoji of the
\* default table for a predefined key, else the fallback if given, else "";
\* null, undefined and non-string events are unresolved.
GetEmojiAsClaimed ==
  eResult # NotCalled => eResult = ClaimedEmoji(eArgs)

\* the same for events that are not the name of a property of Object.prototype
GetEmojiAsClaimedForOwnNames ==
  (eResult # NotCalled /\ ~(Typeof(eArgs.event) = "string" /\
                            eArgs.event.v \in ObjectPrototypeKeys)) =>
    eResult = ClaimedEmoji(eArgs)

-----------------------------------------------------------------------------
(* LoggerFactory properties *)
LoggerMade == facLast.logger # Undefined

\* the adapter names of the resolved configuration that name an adapter the
\* factory can construct now
Constructible(name) ==
  \/ name = Str("console")
  \/ name = Str("file") /\ ~FileAdapterThrows(Coalesce(facLogFileEnv, Str("./logs/app.log")))

KindsOf(made) == [i \in DOMAIN made |-> Str(made[i].kind)]

\* C16: every create call returns a Logger with at least one adapter: its
\* adapters are those of the configured names that are known and whose
\* construction succeeds, in order, and one console adapter when there is none
CreateAlwaysHasAdapter ==
  facLast.op \in {"create", "createBackendLogger"} =>
    LET logger == facLast.logger
        kept == SelectSeq(logger.resolved.adapters.a, Constructible)
    IN /\ logger.t = "logger"
       /\ Len(logger.adapters) >= 1
       /\ KindsOf(logger.adapters) = (IF kept = <<>> THEN <<Str("console")>> ELSE kept)

\* a create call with an unknown name and a file adapter that cannot be
\* constructed, and one where no adapter remains
WitnessCreateAlwaysHasAdapter ==
  /\ facLast.op = "create"
  /\ facLast.logger.resolved.adapters = Arr(<<Str("unknown"), Str("file"), Str("console")>>)
  /\ facLogFileEnv = Str("/proc/1/test.log")
  /\ facLast.logger.errors = 1 /\ facLast.logger.warnings = 1
  /\ Len(facLast.logger.adapters) = 1

\* the createBackendLogger({adapters: ['file'], logFile: p}) calls
BackendFileCall ==
  /\ facLast.op = "createBackendLogger"
  /\ Get(facLast.config, "adapters") = Arr(<<Str("file")>>)
  /\ Truthy(Get(facLast.config, "logFile"))

\* C18: the Logger made by createBackendLogger({adapters: ['file'], logFile: p})
\* has a file adapter writing to p
BackendLoggerWritesToLogFile ==
  BackendFileCall =>
    \E i \in DOMAIN facLast.logger.adapters :
      /\ facLast.logger.adapters[i].kind = "file"
      /\ facLast.logger.adapters[i].filePath = Get(facLast.config, "logFile")

\* what the code does: every file adapter of a made Logger writes to
\* process.env.LOG_FILE, else to ./logs/app.log, whatever logFile is
FileAdapterAtEnvOrDefault ==
  LoggerMade =>
    \A i \in DOMAIN facLast.logger.adapters :
      facLast.logger.adapters[i].kind = "file" =>
        facLast.logger.adapters[i].filePath = Coalesce(facLogFileEnv, Str("./logs/app.log"))

\* what a resolver with the custom mappings answers for an event when enabled
Resolves(custom, event) == getEmoji(TRUE, custom, Str(event))

\* C20: after reset(), until configure is called again, getDefaultConfig()
\* is the initial defaults; and a Logger created after a reset resolves every
\* custom event registered before the reset (and not again since) as a
\* resolver without custom mappings does
ResetRestoresFactory ==
  /\ facAfterReset => getDefaultConfig = InitialDefaults
  /\ LoggerMade =>
       \A event \in facStale :
         Resolves(facLast.logger.resolver.custom, event) = Resolves(NoMappings, event)

\* a Logger with emojis on, created after a reset that dropped CUSTOM_EVENT and
\* after another custom event was registered again
WitnessResetRestoresFactory ==
  /\ LoggerMade
  /\ facAfterReset
  /\ "CUSTOM_EVENT" \in facStale
  /\ ~Nullish(facGlobal) /\ "SYSTEM_START" \in DOMAIN facGlobal.custom
  /\ facLast.logger.resolver.enabled = Bool(TRUE)

-----------------------------------------------------------------------------
(* Identifiers of dispatched entries *)
\* the field k of the context is present: it has a value that is not undefined
Present(ctx, k) == k \in DOMAIN ctx /\ ctx[k] # Undefined

\* C19: in the context of every entry handed to the adapters, traceId, spanId
\* and correlationId, when present, match their patterns
DispatchedIdsWellFormed ==
  lastCall.outcome # "none" =>
    LET ctx == lastCall.entry["context"].f
    IN /\ Present(ctx, "correlationId") => isValidCorrelationId(ctx["correlationId"])
       /\ Present(ctx, "traceId") => isValidTraceId(ctx["traceId"])
       /\ Present(ctx, "spanId") => isValidSpanId(ctx["spanId"])

\* what the code does: the context of the entry is the merge of the base
\* context, the current context and data.context, unsanitized, with a
\* generated (well-formed) correlation ID when the merge has none
DispatchedContextIsMerge ==
  lastCall.outcome # "none" =>
    LET ctx == lastCall.entry["context"].f
        merged == MergedContext(lastCall.base, lastCall.current, lastCall.data)
    IN /\ \A k \in DOMAIN merged \ {"correlationId"} : k \in DOMAIN ctx /\ ctx[k] = merged[k]
       /\ \/ ctx["correlationId"] = Get(Obj(merged), "correlationId")
          \/ isValidCorrelationId(ctx["correlationId"])

-----------------------------------------------------------------------------
(* Properties of Logger.close *)
CloseSettled == clOp = "close" /\ clPc \in {"resolved", "rejected"}

\* C30: when Logger.close() has settled, close() was invoked on every adapter
\* that defines it, whatever the flush() and close() of the adapters do
CloseReachesEveryAdapter ==
  CloseSettled => clClosed = WithMethod(clAdapters, "close")

\* what the code does: close() is invoked on every adapter that defines it
\* unless the flush() of some adapter rejected, and then on none
CloseReachesEveryAdapterAfterFlush ==
  CloseSettled =>
    clClosed = IF AllRejects(clAdapters, "flush", clFlushed) THEN <<>>
               ELSE WithMethod(clAdapters, "close")

-----------------------------------------------------------------------------
(* Properties of the FileAdapter: rotation, threshold and timer *)
NeverClosed == \A c \in DOMAIN fCalls : fCalls[c].kind # "close"

\* C28: a FileAdapter on which close() was never called always holds a write
\* stream, also after a rotation whose rename failed
UnclosedHasStream ==
  NeverClosed => fStream # 0

\* what holds instead: an adapter that was never closed is without a stream
\* exactly when a rotation ended its stream and the rename then threw; the
\* lines it accepts from then on stay in the buffer
StreamLostByFailedRename ==
  NeverClosed /\ fStream = 0 =>
    /\ fEnv.renameThrows
    /\ \E s \in DOMAIN streams : streams[s].ending

\* C22: in a test environment no flush timer is active on a FileAdapter
NoTimerInTestEnvironment ==
  fEnv.test => ~fTimer

\* what holds instead: in a test environment a timer is active only after an
\* updateOptions call that gave a flushInterval (the constructed value is
\* 5000), also when close() was called before it
TimerInTestEnvironmentByUpdate ==
  fEnv.test /\ fTimer => fOpts.flushInterval # 5000

\* C21: with rotateDaily, the log file of an adapter was last modified today:
\* a file of an earlier day has been rotated away
DailyRotatesStaleFile ==
  fOpts.rotateDaily /\ pathInode # 0 =>
    DayOf(inodes[pathInode].mtime) = DayOf(clock)

\* what holds instead: the same in directories that hold a file named for
\* today's date
DailyRotatesStaleFileBesideDatedFile ==
  fOpts.rotateDaily /\ pathInode # 0 /\ DatedName(clock) \in DOMAIN backups =>
    DayOf(inodes[pathInode].mtime) = DayOf(clock)

\* the time fs.statSync reports for a file named filePath.* or, for the name
\* a rotation is moving the log file to, for the log file
MtimeAtRotation(n) ==
  IF Len(rotLog') > Len(rotLog) /\ n = rotLog'[Len(rotLog')].backup /\ pathInode # 0
  THEN inodes[pathInode].mtime
  ELSE inodes[backups[n]].mtime

WriteLeavesBufferBelowThreshold ==
  [][accepted' # accepted => Len(fBuffer') < fOpts.bufferSize]_vars

\* what holds instead: the same for a write() made while the adapter holds a
\* write stream
WriteWithStreamLeavesBufferBelowThreshold ==
  [][accepted' # accepted /\ fStream # 0 => Len(fBuffer') < fOpts.bufferSize]_vars

-----------------------------------------------------------------------------
(* Properties of withContext *)
AllSettled == \A t \in Tasks : wcPc[t] = "settled"

NoneRunning == \A t \in Tasks : wcPc[t] # "running"

\* C26: whenever every withContext call made so far has finished, by a result
\* or by an exception, the stack is empty and the current context is the one
\* from before the first call
WithContextRestores ==
  NoneRunning => cmStack = <<>> /\ cmCurrent = wcInitial

\* all calls have finished; two of them overlapped without nesting (the first
\* to start ended first) and one of them threw
WitnessWithContextRestores ==
  /\ AllSettled
  /\ wcInitial # NoFields
  /\ \E i, j, k, l \in DOMAIN wcLog :
       /\ i < j /\ j < k /\ k < l
       /\ wcLog[i].e = "start" /\ wcLog[j].e = "start" /\ wcLog[i].t # wcLog[j].t
       /\ wcLog[k].t = wcLog[i].t /\ wcLog[k].e = "threw"
       /\ wcLog[l].t = wcLog[j].t /\ wcLog[l].e = "returned"

====
